---------------------------- MODULE Spec2Model ----------------------------
(***************************************************************************)
(* Model of the portfolio position reconstruction and of the TTL caches of *)
(* cotacoesview (src/app.py, src/predictor_model.py), of the forms of a    *)
(* symbol (alias, canonical ticker, name shown) and of the query that      *)
(* feeds the replay from table transacoes (src/create_db.py).              *)
(*                                                                         *)
(* Numbers.  The replay of calcular_posicoes_carteira computes in Python   *)
(* floats.  Here every amount is an exact rational [n, d] in lowest terms, *)
(* d > 0, and the arithmetic is the code's, operation by operation (the    *)
(* division by the held quantity, the product, the two subtractions).      *)
(* Rounding of the binary floating point is not modelled; the input values *)
(* are chosen so that the comparisons of the code come out the same in     *)
(* floats and in exact arithmetic.                                         *)
(***************************************************************************)
EXTENDS Integers, Sequences, FiniteSets, TLC

VARIABLES
    \* ---- one computation of calcular_posicoes_carteira
    pc,                 \* "idle" | "replay" | "done": position in the handler
    idx,                \* rows of todas_transacoes consumed by the for loop
    transacao,          \* the loop variable: the row applied last
    ramo,               \* the branch of the loop body that row took
    comprados,          \* the symbols that had a COMPRA row so far
    estado_ativo,       \* symbol -> [quantidade, custo_acumulado]
    posicoes,           \* symbol -> position record
    retorno,            \* what the handler returned (NoRet while it runs)
    \* ---- the module-level caches and the clock
    now,                \* datetime.datetime.now(), in seconds
    market_data_cache,
    prediction_cache,
    portfolio_cache,
    news_cache,
    historical_chart_cache,
    NEWS_API_KEY,       \* whether the environment sets it (fixed at start)
    chamada,            \* the cached operation called last, and its outcome
    nCalls,             \* calls made (bounded by MaxCalls)
    nTicks,             \* clock advances made (bounded by MaxTicks)
    \* ---- the transacoes table and the symbol forms
    tabela,             \* the rows of table transacoes, in id order
    todas_transacoes,   \* cursor_db.fetchall() of the replay made last
    anterior,           \* the rows and the estado_ativo of the replay before
    canon,              \* the symbol resolved last: site, input, results
    \* ---- the requests in progress, table users and the sessions
    reqs,               \* request -> its position and its locals
    users,              \* id -> the row of table users
    session             \* id of a logged-in user -> the session cookie

replayVars == <<pc, idx, transacao, ramo, comprados, estado_ativo, posicoes,
                retorno>>
cacheVars  == <<market_data_cache, prediction_cache, news_cache,
                historical_chart_cache>>
ctlVars    == <<now, NEWS_API_KEY, chamada, nCalls, nTicks>>
logVars    == <<tabela, todas_transacoes, anterior, canon>>
webVars    == <<reqs, users, session>>
vars == <<pc, idx, transacao, ramo, comprados, estado_ativo, posicoes, retorno, now,
          market_data_cache, prediction_cache, portfolio_cache, news_cache,
          historical_chart_cache, NEWS_API_KEY, chamada, nCalls, nTicks,
          tabela, todas_transacoes, anterior, canon, reqs, users, session>>

-----------------------------------------------------------------------------
(* Bounds of the model *)

\* rows the transaction query returns at most
MaxTx == 3
\* calls of cached operations in one behaviour
MaxCalls == 2
\* clock advances in one behaviour
MaxTicks == 1

-----------------------------------------------------------------------------
(* Exact rationals *)

Abs(i) == IF i < 0 THEN -i ELSE i

RECURSIVE GCD(_, _)
GCD(a, b) == IF b = 0 THEN a ELSE GCD(b, a % b)

\* n/d in lowest terms, d > 0
R(n, d) ==
    LET g == GCD(Abs(n), d)
    IN  [n |-> n \div g, d |-> d \div g]

Zero == R(0, 1)
\* over the least common denominator, to keep the integers small
RAdd(x, y) ==
    LET g == GCD(x.d, y.d)
    IN  R(x.n * (y.d \div g) + y.n * (x.d \div g), (x.d \div g) * y.d)
RNegate(x) == [n |-> -x.n, d |-> x.d]
RSub(x, y) == RAdd(x, RNegate(y))
RMul(x, y) ==
    LET g1 == GCD(Abs(x.n), y.d)
        g2 == GCD(Abs(y.n), x.d)
    IN  R((x.n \div g1) * (y.n \div g2), (x.d \div g2) * (y.d \div g1))
\* y > 0
RDiv(x, y) == RMul(x, [n |-> y.d, d |-> y.n])
RLeq(x, y) ==
    LET g == GCD(x.d, y.d)
    IN  x.n * (y.d \div g) <= y.n * (x.d \div g)
RPos(x) == x.n > 0
RNeg(x) == x.n < 0

-----------------------------------------------------------------------------
(* The rows of the transaction query *)

\* two symbols of the transacoes table, in the order of ORDER BY simbolo_ativo
Symbols == {"BTC-USD", "PETR4.SA"}
SymIdx(s) == IF s = "BTC-USD" THEN 1 ELSE IF s = "PETR4.SA" THEN 2 ELSE 0

\* quantidade DECIMAL(18, 8): whole shares for the stock, fractions below and
\* around the 0.00001 tolerance for the coin (0.000005, 0.000015, 0.00002)
QtyChoices(s) ==
    IF s = "PETR4.SA"
    THEN {R(4, 1), R(6, 1), R(10, 1)}
    ELSE {R(1, 200000), R(3, 200000), R(1, 50000)}
\* preco_unitario > 0; the replay does not read the price of a VENDA row
BuyPrice == R(100, 1)
SellPrice == R(150, 1)
\* custos_taxas >= 0
BuyFees(s) == IF s = "PETR4.SA" THEN {Zero, R(5, 1)} ELSE {Zero}
SellFees == {Zero, R(2, 1)}

\* the rows the query can return for symbol s
RowsOf(s) ==
    { [simbolo_ativo |-> s, tipo_operacao |-> "COMPRA", quantidade |-> q,
       preco_unitario |-> BuyPrice, custos_taxas |-> f] :
         q \in QtyChoices(s), f \in BuyFees(s) }
    \cup
    { [simbolo_ativo |-> s, tipo_operacao |-> "VENDA", quantidade |-> q,
       preco_unitario |-> SellPrice, custos_taxas |-> f] :
         q \in QtyChoices(s), f \in SellFees }

Transacoes == UNION {RowsOf(s) : s \in Symbols}

NoTx == [simbolo_ativo |-> "", tipo_operacao |-> "", quantidade |-> Zero,
         preco_unitario |-> Zero, custos_taxas |-> Zero]

\* no replay was made before; no symbol was resolved
NoReplay == [feito |-> FALSE, rows |-> <<>>, estado |-> <<>>]
NoCanon == [site |-> "", simbolo |-> <<>>, simbolo_yf |-> <<>>,
            nome_popular |-> <<>>]

-----------------------------------------------------------------------------
(* The replay loop of calcular_posicoes_carteira *)

\* if estado_ativo[simbolo]['quantidade'] <= 0.00001
Epsilon == [n |-> 1, d |-> 100000]

EntradaVazia == [quantidade |-> Zero, custo_acumulado |-> Zero]

\* ComEntrada that keeps the entry of no other symbol
ComEntradaSoEste(estado, s) ==
    [x \in {s} |-> IF x \in DOMAIN estado THEN estado[x] ELSE EntradaVazia]

\* if simbolo not in estado_ativo: estado_ativo[simbolo] = {0.0, 0.0}
ComEntrada(estado, s) ==
    [x \in DOMAIN estado \cup {s} |->
        IF x \in DOMAIN estado THEN estado[x] ELSE EntradaVazia]

\* Compra with the fees of the row left out of the cost
CompraSemTaxas(e, t) ==
    [quantidade |-> RAdd(e.quantidade, t.quantidade),
     custo_acumulado |->
        RAdd(e.custo_acumulado, RMul(t.quantidade, t.preco_unitario))]

\* the COMPRA branch, on the entry of the row's symbol
Compra(e, t) ==
    [quantidade |-> RAdd(e.quantidade, t.quantidade),
     custo_acumulado |->
        RAdd(e.custo_acumulado,
             RAdd(RMul(t.quantidade, t.preco_unitario), t.custos_taxas))]

\* Venda without the oversell branch, zeroing only an exactly closed entry
VendaSemLimite(e, t) ==
    IF RPos(e.quantidade)
    THEN LET custo_medio_atual == RDiv(e.custo_acumulado, e.quantidade)
             custo_das_vendidas == RMul(t.quantidade, custo_medio_atual)
             q2 == RSub(e.quantidade, t.quantidade)
             c2 == RSub(e.custo_acumulado,
                        RAdd(custo_das_vendidas, t.custos_taxas))
         IN  IF q2 = Zero
             THEN EntradaVazia
             ELSE [quantidade |-> q2, custo_acumulado |-> c2]
    ELSE e

\* Venda whose tolerance branch zeroes the quantity and keeps the cost
VendaSemZerarCusto(e, t) ==
    IF RPos(e.quantidade)
    THEN IF RLeq(t.quantidade, e.quantidade)
         THEN LET custo_medio_atual == RDiv(e.custo_acumulado, e.quantidade)
                  custo_das_vendidas == RMul(t.quantidade, custo_medio_atual)
                  q2 == RSub(e.quantidade, t.quantidade)
                  c2 == RSub(e.custo_acumulado,
                             RAdd(custo_das_vendidas, t.custos_taxas))
              IN  IF RLeq(q2, Epsilon)
                  THEN [quantidade |-> Zero, custo_acumulado |-> c2]
                  ELSE [quantidade |-> q2, custo_acumulado |-> c2]
         ELSE EntradaVazia
    ELSE e

\* Venda that removes the cost of the sold units and forgets the fees
VendaSemTaxas(e, t) ==
    IF RPos(e.quantidade)
    THEN IF RLeq(t.quantidade, e.quantidade)
         THEN LET custo_medio_atual == RDiv(e.custo_acumulado, e.quantidade)
                  custo_das_vendidas == RMul(t.quantidade, custo_medio_atual)
                  q2 == RSub(e.quantidade, t.quantidade)
                  c2 == RSub(e.custo_acumulado, custo_das_vendidas)
              IN  IF RLeq(q2, Epsilon)
                  THEN EntradaVazia
                  ELSE [quantidade |-> q2, custo_acumulado |-> c2]
         ELSE EntradaVazia
    ELSE e

\* Venda whose oversell branch zeroes the quantity only
VendaExcessoSoQuantidade(e, t) ==
    IF RPos(e.quantidade)
    THEN IF RLeq(t.quantidade, e.quantidade)
         THEN LET custo_medio_atual == RDiv(e.custo_acumulado, e.quantidade)
                  custo_das_vendidas == RMul(t.quantidade, custo_medio_atual)
                  q2 == RSub(e.quantidade, t.quantidade)
                  c2 == RSub(e.custo_acumulado,
                             RAdd(custo_das_vendidas, t.custos_taxas))
              IN  IF RLeq(q2, Epsilon)
                  THEN EntradaVazia
                  ELSE [quantidade |-> q2, custo_acumulado |-> c2]
         ELSE [quantidade |-> Zero, custo_acumulado |-> e.custo_acumulado]
    ELSE e

\* Venda that books a sale against an empty entry as a short position
VendaDescoberta(e, t) ==
    IF RPos(e.quantidade)
    THEN IF RLeq(t.quantidade, e.quantidade)
         THEN LET custo_medio_atual == RDiv(e.custo_acumulado, e.quantidade)
                  custo_das_vendidas == RMul(t.quantidade, custo_medio_atual)
                  q2 == RSub(e.quantidade, t.quantidade)
                  c2 == RSub(e.custo_acumulado,
                             RAdd(custo_das_vendidas, t.custos_taxas))
              IN  IF RLeq(q2, Epsilon)
                  THEN EntradaVazia
                  ELSE [quantidade |-> q2, custo_acumulado |-> c2]
         ELSE EntradaVazia
    ELSE [quantidade |-> RSub(e.quantidade, t.quantidade),
          custo_acumulado |-> RSub(e.custo_acumulado, t.custos_taxas)]

\* Venda that removes the sold units at the price of the sale, not at the
\* average of the entry
VendaAoPrecoDaVenda(e, t) ==
    IF RPos(e.quantidade)
    THEN IF RLeq(t.quantidade, e.quantidade)
         THEN LET custo_das_vendidas == RMul(t.quantidade, t.preco_unitario)
                  q2 == RSub(e.quantidade, t.quantidade)
                  c2 == RSub(e.custo_acumulado,
                             RAdd(custo_das_vendidas, t.custos_taxas))
              IN  IF RLeq(q2, Epsilon)
                  THEN EntradaVazia
                  ELSE [quantidade |-> q2, custo_acumulado |-> c2]
         ELSE EntradaVazia
    ELSE e

\* the VENDA branch, on the entry of the row's symbol
Venda(e, t) ==
    IF RPos(e.quantidade)
    THEN IF RLeq(t.quantidade, e.quantidade)
         THEN LET custo_medio_atual == RDiv(e.custo_acumulado, e.quantidade)
                  custo_das_vendidas == RMul(t.quantidade, custo_medio_atual)
                  q2 == RSub(e.quantidade, t.quantidade)
                  c2 == RSub(e.custo_acumulado,
                             RAdd(custo_das_vendidas, t.custos_taxas))
              IN  IF RLeq(q2, Epsilon)
                  THEN EntradaVazia
                  ELSE [quantidade |-> q2, custo_acumulado |-> c2]
         ELSE EntradaVazia
    ELSE e

\* one iteration of `for transacao in todas_transacoes`
AplicarTransacao(estado, t) ==
    LET e0 == ComEntrada(estado, t.simbolo_ativo)
        e  == e0[t.simbolo_ativo]
    IN  [e0 EXCEPT ![t.simbolo_ativo] =
            IF t.tipo_operacao = "COMPRA" THEN Compra(e, t)
            ELSE IF t.tipo_operacao = "VENDA" THEN Venda(e, t)
            ELSE e]


\* the branch of the loop body row t takes on entry e of its symbol
Ramo(e, t) ==
    IF t.tipo_operacao = "COMPRA" THEN "compra"
    ELSE IF ~RPos(e.quantidade) THEN "venda_ignorada"
    ELSE IF ~RLeq(t.quantidade, e.quantidade) THEN "venda_excesso"
    ELSE IF t.quantidade = e.quantidade THEN "venda_total"
    ELSE IF RLeq(RSub(e.quantidade, t.quantidade), Epsilon)
    THEN "venda_epsilon"
    ELSE "venda_parcial"

-----------------------------------------------------------------------------
(* Values held by the caches and returned by the cached operations *)

\* Python values, in one record shape: None, a float, a DataFrame (by its
\* length: empty, fewer than N_DAYS rows, at least N_DAYS + 1 rows), the
\* article list of fetch_news, the chart response
Val(k, x) == [kind |-> k, v |-> x]
None == Val("None", Zero)
Float(x) == Val("float", x)
DF(k) == Val(k, Zero)
EmptyDF == DF("df_empty")
IsEmptyDF(d) == d.kind = "df_empty"
IsDF(d) == d.kind \in {"df_empty", "df_short", "df_full", "df_lagged"}
\* len(df) < N_DAYS
IsShortDF(d) == d.kind = "df_short"

\* what the provider answers when it is asked
HistProv == {"error", "df_empty", "df_short", "df_full"}
PriceProv == {"error", "df_empty", "nocol", "nan", "ok"}
\* latest_price: the coin above the price of its purchases, the stock at it
CurrentPrice(simbolo) == IF simbolo = "PETR4.SA" THEN R(100, 1) ELSE R(120, 1)
PredictedPrice == R(125, 1)

MARKET_DATA_CACHE_TTL == 300
NEWS_CACHE_TTL == 3600
PORTFOLIO_CACHE_TTL == 120
PREDICTION_CACHE_TTL == 600
HISTORICAL_CHART_CACHE_TTL == 3600

\* an entry that never expires
CacheSempreFresco(cache, key, ttl) == key \in DOMAIN cache

\* is_cache_fresh(cache, key, ttl), read against the clock
is_cache_fresh(cache, key, ttl) ==
    key \in DOMAIN cache /\ now - cache[key].timestamp < ttl

\* cache[key] = {'data': data, 'timestamp': datetime.datetime.now()}
Store(cache, key, data) ==
    [k \in DOMAIN cache \cup {key} |->
        IF k = key THEN [data |-> data, timestamp |-> now] ELSE cache[k]]

\* get_historical_prices_yfinance_cached(simbolo, period, interval); prov is
\* the answer of ticker.history if it is asked.  The symbols of the model
\* are fixed points of the inline canonicalization.
GetHist(mcache, simbolo, period, interval, prov) ==
    LET cache_key == <<simbolo, period, interval>>
    IN  IF is_cache_fresh(mcache, cache_key, MARKET_DATA_CACHE_TTL)
        \* market_data_cache[cache_key]['data'].copy(), outside the try: the
        \* float that _get_current_price_yfinance keeps under
        \* (symbol, "1d", "1m") has no copy(), AttributeError
        THEN IF IsDF(mcache[cache_key].data)
             THEN [ret |-> mcache[cache_key].data, mcache |-> mcache,
                   invoked |-> FALSE, alias |-> FALSE, raised |-> FALSE]
             ELSE [ret |-> None, mcache |-> mcache, invoked |-> FALSE,
                   alias |-> FALSE, raised |-> TRUE]
        ELSE IF prov \in {"error", "df_empty"}
        THEN [ret |-> EmptyDF, mcache |-> mcache, invoked |-> TRUE,
              alias |-> FALSE, raised |-> FALSE]
        \* return df_hist.copy()
        ELSE [ret |-> DF(prov), mcache |-> Store(mcache, cache_key, DF(prov)),
              invoked |-> TRUE, alias |-> FALSE, raised |-> FALSE]

\* _get_current_price_yfinance(simbolo); prov is the outcome of the one or
\* two ticker.history calls and of the column and NaN tests
GetPrice(mcache, simbolo, prov) ==
    LET cache_key == <<simbolo, "1d", "1m">>
    IN  IF is_cache_fresh(mcache, cache_key, MARKET_DATA_CACHE_TTL)
        THEN [ret |-> mcache[cache_key].data, mcache |-> mcache,
              invoked |-> FALSE]
        ELSE IF prov = "ok"
        THEN [ret |-> Float(CurrentPrice(simbolo)),
              mcache |-> Store(mcache, cache_key,
                               Float(CurrentPrice(simbolo))),
              invoked |-> TRUE]
        ELSE [ret |-> None, mcache |-> mcache, invoked |-> TRUE]

\* train_and_predict_price after its second history fetch, h2
PreverUltimos(h2) ==
    IF h2.raised \/ IsEmptyDF(h2.ret)
    \* df_last_N_days['Close'] on pd.DataFrame(): KeyError
    THEN [ret |-> None, raised |-> TRUE, mcache |-> h2.mcache]
    ELSE IF IsShortDF(h2.ret)
    THEN [ret |-> None, raised |-> FALSE, mcache |-> h2.mcache]
    ELSE [ret |-> Float(PredictedPrice), raised |-> FALSE,
          mcache |-> h2.mcache]

\* df_hist['Close'] = ..., df_hist.dropna(inplace=True), the Close_lag_i
\* columns: the table is changed in place, and so is the cache entry when
\* the table received is the object the cache holds
MutarNoLugar(cache, key, alias) ==
    IF alias /\ key \in DOMAIN cache
    THEN [cache EXCEPT ![key].data = DF("df_lagged")]
    ELSE cache

\* train_and_predict_price after its first history fetch, h1
Treinar(h1, symbol, r2) ==
    IF h1.raised
    THEN [ret |-> None, raised |-> TRUE, mcache |-> h1.mcache]
    ELSE IF IsEmptyDF(h1.ret) \/ IsShortDF(h1.ret)
    THEN [ret |-> None, raised |-> FALSE, mcache |-> h1.mcache]
    ELSE PreverUltimos(
            GetHist(MutarNoLugar(h1.mcache, <<symbol, "1y", "1d">>, h1.alias),
                    symbol, "10d", "1d", r2))

\* train_and_predict_price(symbol, get_historical_prices_func): r1 and r2
\* are the provider's answers to its two history fetches
TrainAndPredict(mcache, symbol, r1, r2) ==
    Treinar(GetHist(mcache, symbol, "1y", "1d", r1), symbol, r2)

\* get_predicted_price_for_display after a cache miss; tp is what
\* train_and_predict_price did
GuardarPrevisao(pcache, cache_key, tp) ==
    IF tp.raised
    THEN [ret |-> None, raised |-> TRUE, mcache |-> tp.mcache,
          pcache |-> pcache, invoked |-> TRUE]
    ELSE IF tp.ret # None
    THEN [ret |-> tp.ret, raised |-> FALSE, mcache |-> tp.mcache,
          pcache |-> Store(pcache, cache_key, tp.ret), invoked |-> TRUE]
    ELSE [ret |-> None, raised |-> FALSE, mcache |-> tp.mcache,
          pcache |-> pcache, invoked |-> TRUE]

\* get_predicted_price_for_display(simbolo)
GetPredicted(mcache, pcache, simbolo, r1, r2) ==
    IF is_cache_fresh(pcache, simbolo, PREDICTION_CACHE_TTL)
    THEN [ret |-> pcache[simbolo].data, raised |-> FALSE,
          mcache |-> mcache, pcache |-> pcache, invoked |-> FALSE]
    ELSE GuardarPrevisao(pcache, simbolo,
                         TrainAndPredict(mcache, simbolo, r1, r2))

-----------------------------------------------------------------------------
(* The positions loop of calcular_posicoes_carteira *)

User == "u1"

\* dict order of estado_ativo: the order of the rows, sorted by symbol
SymSeq == <<"BTC-USD", "PETR4.SA">>

\* if dados_posicao['quantidade'] > 0
TemPosicao(dados) == RPos(dados.quantidade)

Held(estado) == {s \in DOMAIN estado : TemPosicao(estado[s])}

\* the record built for one held symbol
Posicao(dados, preco_atual, preco_previsto) ==
    LET preco_medio == RDiv(dados.custo_acumulado, dados.quantidade)
    IN  [quantidade |-> dados.quantidade,
         preco_medio |-> preco_medio,
         preco_atual |-> preco_atual,
         preco_previsto |-> preco_previsto,
         valor_atual |->
            IF preco_atual # None
            THEN RMul(preco_atual.v, dados.quantidade) ELSE Zero,
         lucro_prejuizo_nao_realizado |->
            IF preco_atual # None
            THEN RMul(RSub(preco_atual.v, preco_medio), dados.quantidade)
            ELSE Zero]

\* the outcomes of the provider for the lookups of one held symbol: price
\* and prediction found, price missing, both missing (history too short),
\* price found and the second history fetch of the predictor empty
LookupOutcomes ==
    { [price |-> "ok", r1 |-> "df_full", r2 |-> "df_full"],
      [price |-> "error", r1 |-> "df_full", r2 |-> "df_full"],
      [price |-> "error", r1 |-> "df_short", r2 |-> "df_short"],
      [price |-> "ok", r1 |-> "df_full", r2 |-> "df_empty"] }

Acc0 == [posicoes |-> <<>>, total_valor_carteira |-> Zero,
         total_lucro_nao_realizado |-> Zero,
         total_prejuizo_nao_realizado |-> Zero,
         mcache |-> market_data_cache, pcache |-> prediction_cache,
         raised |-> FALSE]

\* the totals with every profit or loss added to the gain
AcumularSemSinal(acc, s, p, pv) ==
    [posicoes |->
        [x \in DOMAIN acc.posicoes \cup {s} |->
            IF x = s THEN p ELSE acc.posicoes[x]],
     total_valor_carteira |-> RAdd(acc.total_valor_carteira, p.valor_atual),
     total_lucro_nao_realizado |->
        RAdd(acc.total_lucro_nao_realizado, p.lucro_prejuizo_nao_realizado),
     total_prejuizo_nao_realizado |-> acc.total_prejuizo_nao_realizado,
     mcache |-> pv.mcache, pcache |-> pv.pcache, raised |-> FALSE]

\* posicoes[simbolo] = {...} and the three running totals, with the caches
\* as the two lookups left them
Acumular(acc, s, p, pv) ==
    LET lp == p.lucro_prejuizo_nao_realizado
    IN  [posicoes |->
            [x \in DOMAIN acc.posicoes \cup {s} |->
                IF x = s THEN p ELSE acc.posicoes[x]],
         total_valor_carteira |->
            RAdd(acc.total_valor_carteira, p.valor_atual),
         total_lucro_nao_realizado |->
            IF RPos(lp) THEN RAdd(acc.total_lucro_nao_realizado, lp)
            ELSE acc.total_lucro_nao_realizado,
         total_prejuizo_nao_realizado |->
            IF RPos(lp) THEN acc.total_prejuizo_nao_realizado
            ELSE RAdd(acc.total_prejuizo_nao_realizado, lp),
         mcache |-> pv.mcache, pcache |-> pv.pcache, raised |-> FALSE]

\* pv is what get_predicted_price_for_display(simbolo) did: its exception
\* leaves the loop
ComPrevisao(dados, s, acc, pr, pv) ==
    IF pv.raised
    THEN [acc EXCEPT !.raised = TRUE, !.mcache = pv.mcache,
                     !.pcache = pv.pcache]
    ELSE Acumular(acc, s, Posicao(dados, pr.ret, pv.ret), pv)

\* pr is what _get_current_price_yfinance(simbolo) did; o is the provider's
\* answer to the lookups of the symbol
ComPreco(dados, s, acc, o, pr) ==
    ComPrevisao(dados, s, acc, pr,
                GetPredicted(pr.mcache, acc.pcache, s, o.r1, o.r2))

\* the body of the loop without the quantity filter: an entry that holds
\* nothing is reported with a zero average
PassoPosicaoSemFiltro(estado, s, acc, out) ==
    IF s \notin DOMAIN estado THEN acc
    ELSE IF TemPosicao(estado[s])
    THEN ComPreco(estado[s], s, acc, out[s],
                  GetPrice(acc.mcache, s, out[s].price))
    ELSE [acc EXCEPT !.posicoes =
            [x \in DOMAIN acc.posicoes \cup {s} |->
                IF x = s
                THEN [quantidade |-> estado[s].quantidade,
                      preco_medio |-> Zero, preco_atual |-> None,
                      preco_previsto |-> None, valor_atual |-> Zero,
                      lucro_prejuizo_nao_realizado |-> Zero]
                ELSE acc.posicoes[x]]]

\* the body of the loop for symbol s
PassoPosicao(estado, s, acc, out) ==
    IF s \notin DOMAIN estado \/ ~TemPosicao(estado[s]) THEN acc
    ELSE ComPreco(estado[s], s, acc, out[s],
                  GetPrice(acc.mcache, s, out[s].price))

\* `for simbolo, dados_posicao in estado_ativo.items()`, from the i-th symbol
\* on
RECURSIVE LoopPosicoes(_, _, _, _)
LoopPosicoes(estado, i, acc, out) ==
    IF i > Len(SymSeq) \/ acc.raised THEN acc
    ELSE LoopPosicoes(estado, i + 1,
                      PassoPosicao(estado, SymSeq[i], acc, out), out)

\* the tuple the handler returns
Tupla(p, tv, tl, tp) ==
    [done |-> TRUE, posicoes |-> p, total_valor_carteira |-> tv,
     total_lucro_nao_realizado |-> tl, total_prejuizo_nao_realizado |-> tp]
\* return {}, 0.0, 0.0, 0.0
TuplaVazia == Tupla(<<>>, Zero, Zero, Zero)
NoRet == [TuplaVazia EXCEPT !.done = FALSE]

\* Fechar that puts only the new positions in an entry that exists
FecharSoPosicoes(fcache, user_id, r) ==
    IF r.raised
    THEN [ret |-> TuplaVazia, fcache |-> fcache, posicoes |-> r.posicoes,
          mcache |-> r.mcache, pcache |-> r.pcache, alias |-> FALSE]
    ELSE [ret |-> Tupla(r.posicoes, r.total_valor_carteira,
                        r.total_lucro_nao_realizado,
                        r.total_prejuizo_nao_realizado),
          fcache |-> IF user_id \in DOMAIN fcache
                     THEN [fcache EXCEPT ![user_id].data.posicoes = r.posicoes,
                                         ![user_id].timestamp = now]
                     ELSE Store(fcache, user_id,
                                Tupla(r.posicoes, r.total_valor_carteira,
                                      r.total_lucro_nao_realizado,
                                      r.total_prejuizo_nao_realizado)),
          posicoes |-> r.posicoes, mcache |-> r.mcache, pcache |-> r.pcache,
          alias |-> TRUE]

\* the end of calcular_posicoes_carteira once the positions loop has left r:
\* the except branch, or the store and the return
Fechar(fcache, user_id, r) ==
    IF r.raised
    THEN [ret |-> TuplaVazia, fcache |-> fcache, posicoes |-> r.posicoes,
          mcache |-> r.mcache, pcache |-> r.pcache, alias |-> FALSE]
    ELSE [ret |-> Tupla(r.posicoes, r.total_valor_carteira,
                        r.total_lucro_nao_realizado,
                        r.total_prejuizo_nao_realizado),
          fcache |-> Store(fcache, user_id,
                           Tupla(r.posicoes, r.total_valor_carteira,
                                 r.total_lucro_nao_realizado,
                                 r.total_prejuizo_nao_realizado)),
          \* posicoes is the dict inside the tuple just stored
          posicoes |-> r.posicoes, mcache |-> r.mcache, pcache |-> r.pcache,
          alias |-> TRUE]

NoCall == [op |-> "", key |-> <<>>, invoked |-> FALSE, ret |-> None,
           raised |-> FALSE, alias |-> FALSE]

-----------------------------------------------------------------------------
(* One computation of calcular_posicoes_carteira after a cache miss *)

InitReplay ==
    /\ pc = "replay"
    /\ idx = 0
    /\ transacao = NoTx
    /\ ramo = ""
    /\ comprados = {}
    /\ estado_ativo = <<>>
    /\ posicoes = <<>>
    /\ retorno = NoRet
    /\ now = 0
    /\ market_data_cache = <<>>
    /\ prediction_cache = <<>>
    /\ portfolio_cache = <<>>
    /\ news_cache = <<>>
    /\ historical_chart_cache = <<>>
    /\ NEWS_API_KEY = TRUE
    /\ chamada = NoCall
    /\ nCalls = 0
    /\ nTicks = 0
    /\ tabela = <<>>
    /\ todas_transacoes = <<>>
    /\ anterior = NoReplay
    /\ canon = NoCanon
    /\ reqs = <<>>
    /\ users = <<>>
    /\ session = <<>>

\* one iteration of the replay loop on the next row of the query, which is
\* sorted by simbolo_ativo
Iterar ==
    /\ pc = "replay"
    /\ idx < MaxTx
    /\ \E t \in Transacoes :
        /\ idx > 0 => SymIdx(t.simbolo_ativo) >= SymIdx(transacao.simbolo_ativo)
        /\ transacao' = t
        /\ ramo' = Ramo(ComEntrada(estado_ativo, t.simbolo_ativo)[t.simbolo_ativo], t)
        /\ comprados' = IF t.tipo_operacao = "COMPRA"
                        THEN comprados \cup {t.simbolo_ativo} ELSE comprados
        /\ estado_ativo' = AplicarTransacao(estado_ativo, t)
    /\ idx' = idx + 1
    /\ UNCHANGED <<pc, posicoes, retorno, portfolio_cache>>
    /\ UNCHANGED cacheVars
    /\ UNCHANGED ctlVars
    /\ UNCHANGED logVars
    /\ UNCHANGED webVars

\* the query raises: except Exception -> return {}, 0.0, 0.0, 0.0
FalhaConsulta ==
    /\ pc = "replay"
    /\ idx = 0
    /\ pc' = "done"
    /\ retorno' = TuplaVazia
    /\ UNCHANGED <<idx, transacao, ramo, comprados, estado_ativo, posicoes,
                   portfolio_cache>>
    /\ UNCHANGED cacheVars
    /\ UNCHANGED ctlVars
    /\ UNCHANGED logVars
    /\ UNCHANGED webVars

\* the rows are exhausted: the positions loop, the store and the return
MontarPosicoes ==
    /\ pc = "replay"
    /\ \E out \in [Held(estado_ativo) -> LookupOutcomes] :
        \E f \in {Fechar(portfolio_cache, User,
                         LoopPosicoes(estado_ativo, 1, Acc0, out))} :
            /\ posicoes' = f.posicoes
            /\ market_data_cache' = f.mcache
            /\ prediction_cache' = f.pcache
            /\ retorno' = f.ret
            /\ portfolio_cache' = f.fcache
    /\ pc' = "done"
    \* the locals keep the values they had when the handler returned
    /\ UNCHANGED <<idx, transacao, ramo, comprados, estado_ativo, news_cache,
                   historical_chart_cache>>
    /\ UNCHANGED ctlVars
    /\ UNCHANGED logVars
    /\ UNCHANGED webVars

NextReplay == Iterar \/ FalhaConsulta \/ MontarPosicoes

SpecReplay == InitReplay /\ [][NextReplay]_vars

-----------------------------------------------------------------------------
(* Properties of the replay (SpecReplay) *)

\* the entry of symbol s, an absent entry read as the empty one
Entrada(estado, s) == IF s \in DOMAIN estado THEN estado[s] ELSE EntradaVazia

\* a step of the replay loop that applied a row of the given kind
PassoDe(tipo) ==
    /\ pc = "replay" /\ pc' = "replay" /\ idx' = idx + 1
    /\ transacao'.tipo_operacao = tipo

\* C1: in the replay loop, after each single transaction, the tracked
\* quantity of every symbol is >= 0
C1_QuantidadeNaoNegativa ==
    \A s \in DOMAIN estado_ativo : estado_ativo[s].quantidade.n >= 0

\* an oversell has just been applied, and the quantity is 0, not negative
C1_Witness ==
    /\ pc = "replay" /\ ramo = "venda_excesso"
    /\ estado_ativo[transacao.simbolo_ativo].quantidade = Zero

\* C2: after every transaction application and for every symbol,
\* quantity = 0 implies accumulated cost = 0
C2_ZeroSemCusto ==
    \A s \in DOMAIN estado_ativo :
        estado_ativo[s].quantidade = Zero =>
            estado_ativo[s].custo_acumulado = Zero

\* a sale with fees has just left a residue within the tolerance, and the
\* entry was snapped to (0, 0)
C2_Witness ==
    /\ pc = "replay" /\ ramo = "venda_epsilon"
    /\ transacao.custos_taxas # Zero
    /\ estado_ativo[transacao.simbolo_ativo] = EntradaVazia

\* C3: the accumulated cost of every symbol is non-negative after each
\* transaction, and no position is reported with a negative average cost
C3_CustoNaoNegativo ==
    /\ \A s \in DOMAIN estado_ativo : estado_ativo[s].custo_acumulado.n >= 0
    /\ \A s \in DOMAIN retorno.posicoes : retorno.posicoes[s].preco_medio.n >= 0

\* C4 as stated: every VENDA of q <= Q on a held symbol leaves quantity Q - q
\* and cost C - q * (C / Q) - fees
C4_VendaSemTolerancia ==
    [][ PassoDe("VENDA") =>
          LET t == transacao'
              e == Entrada(estado_ativo, t.simbolo_ativo)
          IN  (RPos(e.quantidade) /\ RLeq(t.quantidade, e.quantidade)) =>
                estado_ativo'[t.simbolo_ativo] =
                  [quantidade |-> RSub(e.quantidade, t.quantidade),
                   custo_acumulado |->
                      RSub(RSub(e.custo_acumulado,
                                RMul(t.quantidade,
                                     RDiv(e.custo_acumulado, e.quantidade))),
                           t.custos_taxas)] ]_vars

\* C4 (amended): a VENDA of q <= Q on a held symbol leaves quantity Q - q and
\* cost C - q * (C / Q) - fees when Q - q > 0.00001, and leaves quantity 0
\* and cost 0 when Q - q <= 0.00001
C4_VendaCustoMedio ==
    [][ PassoDe("VENDA") =>
          LET t == transacao'
              e == Entrada(estado_ativo, t.simbolo_ativo)
              resto == RSub(e.quantidade, t.quantidade)
          IN  (RPos(e.quantidade) /\ RLeq(t.quantidade, e.quantidade)) =>
                estado_ativo'[t.simbolo_ativo] =
                  IF RLeq(resto, Epsilon)
                  THEN [quantidade |-> Zero, custo_acumulado |-> Zero]
                  ELSE [quantidade |-> resto,
                        custo_acumulado |->
                          RSub(RSub(e.custo_acumulado,
                                    RMul(t.quantidade,
                                         RDiv(e.custo_acumulado,
                                              e.quantidade))),
                               t.custos_taxas)] ]_vars

\* from quantity 10, cost 1005, a sale of 4 with fees 2 has left 6 and 601
C4_Witness ==
    /\ pc = "replay" /\ ramo = "venda_parcial" /\ idx = 2
    /\ transacao.quantidade = R(4, 1) /\ transacao.custos_taxas = R(2, 1)
    /\ estado_ativo["PETR4.SA"] =
         [quantidade |-> R(6, 1), custo_acumulado |-> R(601, 1)]

\* C5: a COMPRA of q at price p with fees f adds exactly q to the quantity
\* of its symbol and q * p + f to its cost, and leaves every other symbol's
\* entry unchanged
C5_CompraSoma ==
    [][ PassoDe("COMPRA") =>
          LET t == transacao'
              e == Entrada(estado_ativo, t.simbolo_ativo)
          IN  /\ estado_ativo'[t.simbolo_ativo] =
                   [quantidade |-> RAdd(e.quantidade, t.quantidade),
                    custo_acumulado |->
                       RAdd(e.custo_acumulado,
                            RAdd(RMul(t.quantidade, t.preco_unitario),
                                 t.custos_taxas))]
              /\ DOMAIN estado_ativo' =
                   DOMAIN estado_ativo \cup {t.simbolo_ativo}
              /\ \A x \in DOMAIN estado_ativo \ {t.simbolo_ativo} :
                   estado_ativo'[x] = estado_ativo[x] ]_vars

\* 10 bought at 100 with fees 5 from an empty entry: quantity 10, cost 1005,
\* average 100.5, while the other symbol is held
C5_Witness ==
    /\ pc = "replay" /\ ramo = "compra"
    /\ transacao.simbolo_ativo = "PETR4.SA"
    /\ transacao.quantidade = R(10, 1) /\ transacao.custos_taxas = R(5, 1)
    /\ estado_ativo["PETR4.SA"] =
         [quantidade |-> R(10, 1), custo_acumulado |-> R(1005, 1)]
    /\ RDiv(estado_ativo["PETR4.SA"].custo_acumulado,
            estado_ativo["PETR4.SA"].quantidade) = R(201, 2)
    /\ "BTC-USD" \in DOMAIN estado_ativo
    /\ RPos(estado_ativo["BTC-USD"].quantidade)

\* C6: a VENDA of more than the held positive quantity sets quantity and
\* cost to exactly 0 (the step exists: no error; the quantity is not
\* negative), and a symbol whose entry is empty when the rows end is not in
\* the returned positions: only a later COMPRA makes the quantity positive
C6_VendaExcessoZera ==
    [][ /\ PassoDe("VENDA") =>
            LET t == transacao'
                e == Entrada(estado_ativo, t.simbolo_ativo)
            IN  (RPos(e.quantidade) /\ ~RLeq(t.quantidade, e.quantidade)) =>
                  estado_ativo'[t.simbolo_ativo] =
                    [quantidade |-> Zero, custo_acumulado |-> Zero]
        /\ \A s \in Symbols :
              (Entrada(estado_ativo, s).quantidade = Zero /\
               RPos(Entrada(estado_ativo', s).quantidade)) =>
                  (PassoDe("COMPRA") /\ transacao'.simbolo_ativo = s)
        /\ (pc = "replay" /\ pc' = "done") =>
              \A s \in Symbols :
                 Entrada(estado_ativo, s).quantidade = Zero =>
                    s \notin DOMAIN retorno'.posicoes ]_vars

\* 10 sold with 6 held (after 10 bought and 4 sold): the entry is (0, 0)
C6_Witness ==
    /\ pc = "replay" /\ ramo = "venda_excesso" /\ idx = 3
    /\ transacao.simbolo_ativo = "PETR4.SA"
    /\ transacao.quantidade = R(10, 1)
    /\ estado_ativo["PETR4.SA"] = EntradaVazia

\* C7: a VENDA on a symbol whose held quantity is 0 changes the quantity and
\* the cost of no symbol, and a symbol without a COMPRA row holds nothing and
\* is never in the returned positions
C7_VendaSemPosicaoIgnorada ==
    [][ /\ PassoDe("VENDA") =>
            (Entrada(estado_ativo, transacao'.simbolo_ativo).quantidade = Zero
             => \A s \in Symbols :
                   Entrada(estado_ativo', s) = Entrada(estado_ativo, s))
        /\ \A s \in Symbols \ comprados' :
              Entrada(estado_ativo', s) = EntradaVazia
        /\ (pc = "replay" /\ pc' = "done") =>
              DOMAIN retorno'.posicoes \subseteq comprados ]_vars

\* the snapshot was returned after a symbol had nothing but a VENDA row,
\* ignored, while the other symbol is held and reported
C7_Witness ==
    /\ pc = "done" /\ ramo = "venda_ignorada"
    /\ transacao.simbolo_ativo = "PETR4.SA"
    /\ "PETR4.SA" \notin comprados
    /\ estado_ativo["PETR4.SA"] = EntradaVazia
    /\ DOMAIN retorno.posicoes = {"BTC-USD"}

\* C8: every symbol in the positions map returned by the handler has a
\* final replayed quantity > 0, which is the quantity reported; no symbol
\* whose quantity after the replay is 0 is in it
C8_PosicoesSoComQuantidade ==
    pc = "done" =>
        /\ \A s \in DOMAIN retorno.posicoes :
              /\ s \in DOMAIN estado_ativo
              /\ RPos(estado_ativo[s].quantidade)
              /\ retorno.posicoes[s].quantidade = estado_ativo[s].quantidade
        /\ \A s \in Symbols :
              Entrada(estado_ativo, s).quantidade = Zero =>
                 s \notin DOMAIN retorno.posicoes

\* a snapshot was returned with one symbol held and the other one bought,
\* sold out and left out
C8_Witness ==
    /\ pc = "done" /\ retorno.done
    /\ DOMAIN retorno.posicoes = {"PETR4.SA"}
    /\ "BTC-USD" \in comprados
    /\ estado_ativo["BTC-USD"] = EntradaVazia

-----------------------------------------------------------------------------
(* The cached operations, called one after another while the clock runs *)

\* the whole replay loop on the rows of the query
RECURSIVE ReplayTodas(_, _)
ReplayTodas(estado, rows) ==
    IF rows = <<>> THEN estado
    ELSE ReplayTodas(AplicarTransacao(estado, Head(rows)), Tail(rows))

\* the symbol, the news query and the transaction logs used with the caches
CacheSymbol == "PETR4.SA"
NewsQuery == "Mercado Financeiro Brasil"
HistPeriods == {<<"1y", "1d">>, <<"10d", "1d">>}
\* the query of calcular_posicoes_carteira: it raises, or returns no row, or
\* the one row COMPRA 10 at 100 with fees 5
DbOutcomes ==
    { [err |-> TRUE, rows |-> <<>>],
      [err |-> FALSE, rows |-> <<>>],
      [err |-> FALSE,
       rows |-> << [simbolo_ativo |-> CacheSymbol, tipo_operacao |-> "COMPRA",
                    quantidade |-> R(10, 1), preco_unitario |-> BuyPrice,
                    custos_taxas |-> R(5, 1)] >>] }
\* requests.get raises, response.json() raises, a publishedAt that
\* fromisoformat rejects, no usable article, some articles
NewsResp == {"reqerror", "jsonerror", "bad_date", "list_empty", "list"}

\* alias: the object returned is the object the cache holds
Call(op, key, invoked, ret, raised, alias) ==
    [op |-> op, key |-> key, invoked |-> invoked, ret |-> ret,
     raised |-> raised, alias |-> alias]

\* the clock advances once the last call has been answered: by a second, to
\* the last second of the shortest TTL, or by the longest TTL
TickSteps ==
    {1, PORTFOLIO_CACHE_TTL - 1, HISTORICAL_CHART_CACHE_TTL}

InitCache ==
    /\ pc = "idle"
    /\ idx = 0
    /\ transacao = NoTx
    /\ ramo = ""
    /\ comprados = {}
    /\ estado_ativo = <<>>
    /\ posicoes = <<>>
    /\ retorno = NoRet
    /\ now = 0
    /\ market_data_cache = <<>>
    /\ prediction_cache = <<>>
    /\ portfolio_cache = <<>>
    /\ news_cache = <<>>
    /\ historical_chart_cache = <<>>
    /\ NEWS_API_KEY \in BOOLEAN
    /\ chamada = NoCall
    /\ nCalls = 0
    /\ nTicks = 0
    /\ tabela = <<>>
    /\ todas_transacoes = <<>>
    /\ anterior = NoReplay
    /\ canon = NoCanon
    /\ reqs = <<>>
    /\ users = <<>>
    /\ session = <<>>

Tick ==
    /\ nTicks < MaxTicks
    /\ \E d \in TickSteps : now' = now + d
    /\ nTicks' = nTicks + 1
    /\ chamada' = NoCall
    /\ UNCHANGED <<NEWS_API_KEY, nCalls, portfolio_cache>>
    /\ UNCHANGED replayVars
    /\ UNCHANGED logVars
    /\ UNCHANGED cacheVars
    /\ UNCHANGED webVars

\* get_historical_prices_yfinance_cached(simbolo, period, interval)
CallHist ==
    /\ nCalls < MaxCalls
    /\ \E pi \in HistPeriods, prov \in HistProv :
        LET r == GetHist(market_data_cache, CacheSymbol, pi[1], pi[2], prov)
        IN  /\ market_data_cache' = r.mcache
            /\ chamada' = Call("hist", <<CacheSymbol, pi[1], pi[2]>>,
                               r.invoked, r.ret, r.raised, r.alias)
    /\ nCalls' = nCalls + 1
    /\ UNCHANGED <<now, NEWS_API_KEY, nTicks, prediction_cache,
                   portfolio_cache, news_cache, historical_chart_cache>>
    /\ UNCHANGED replayVars
    /\ UNCHANGED logVars
    /\ UNCHANGED webVars

\* _get_current_price_yfinance(simbolo)
CallPrice ==
    /\ nCalls < MaxCalls
    /\ \E prov \in PriceProv :
        LET r == GetPrice(market_data_cache, CacheSymbol, prov)
        IN  /\ market_data_cache' = r.mcache
            \* a float: nothing for the caller to change
            /\ chamada' = Call("price", <<CacheSymbol, "1d", "1m">>,
                               r.invoked, r.ret, FALSE, FALSE)
    /\ nCalls' = nCalls + 1
    /\ UNCHANGED <<now, NEWS_API_KEY, nTicks, prediction_cache,
                   portfolio_cache, news_cache, historical_chart_cache>>
    /\ UNCHANGED replayVars
    /\ UNCHANGED logVars
    /\ UNCHANGED webVars

\* get_predicted_price_for_display(simbolo)
CallPredicted ==
    /\ nCalls < MaxCalls
    /\ \E r1 \in HistProv, r2 \in HistProv :
        LET r == GetPredicted(market_data_cache, prediction_cache,
                              CacheSymbol, r1, r2)
        IN  /\ market_data_cache' = r.mcache
            /\ prediction_cache' = r.pcache
            /\ chamada' = Call("predicted", <<CacheSymbol>>, r.invoked,
                               r.ret, r.raised, FALSE)
    /\ nCalls' = nCalls + 1
    /\ UNCHANGED <<now, NEWS_API_KEY, nTicks, portfolio_cache, news_cache,
                   historical_chart_cache>>
    /\ UNCHANGED replayVars
    /\ UNCHANGED logVars
    /\ UNCHANGED webVars

\* fetch_news(query)
FetchNews(ncache, query, resp) ==
    IF is_cache_fresh(ncache, query, NEWS_CACHE_TTL)
    \* return news_cache[cache_key]['data']: the list the cache holds
    THEN [ret |-> ncache[query].data, raised |-> FALSE, ncache |-> ncache,
          invoked |-> FALSE, alias |-> TRUE]
    ELSE IF ~NEWS_API_KEY
    THEN [ret |-> Val("list_empty", Zero), raised |-> FALSE,
          ncache |-> ncache, invoked |-> FALSE, alias |-> FALSE]
    ELSE IF resp \in {"reqerror", "jsonerror"}
    THEN [ret |-> Val("list_empty", Zero), raised |-> FALSE,
          ncache |-> ncache, invoked |-> TRUE, alias |-> FALSE]
    ELSE IF resp = "bad_date"
    THEN [ret |-> None, raised |-> TRUE, ncache |-> ncache, invoked |-> TRUE,
          alias |-> FALSE]
    \* filtered_articles is stored and returned
    ELSE [ret |-> Val(resp, Zero), raised |-> FALSE,
          ncache |-> Store(ncache, query, Val(resp, Zero)), invoked |-> TRUE,
          alias |-> TRUE]

CallNews ==
    /\ nCalls < MaxCalls
    /\ \E resp \in NewsResp :
        LET r == FetchNews(news_cache, NewsQuery, resp)
        IN  /\ news_cache' = r.ncache
            /\ chamada' = Call("news", <<NewsQuery>>, r.invoked, r.ret,
                               r.raised,
                               r.alias)
    /\ nCalls' = nCalls + 1
    /\ UNCHANGED <<now, NEWS_API_KEY, nTicks, market_data_cache,
                   prediction_cache, portfolio_cache, historical_chart_cache>>
    /\ UNCHANGED replayVars
    /\ UNCHANGED logVars
    /\ UNCHANGED webVars

\* get_historical_chart_data(simbolo); figErr: building the figure raises
GetChart(ccache, mcache, simbolo, prov, figErr) ==
    LET cache_key == <<simbolo, "1y", "1d">>
        h == GetHist(mcache, simbolo, "1y", "1d", prov)
    IN  IF is_cache_fresh(ccache, cache_key, HISTORICAL_CHART_CACHE_TTL)
        THEN [ret |-> ccache[cache_key].data, ccache |-> ccache,
              mcache |-> mcache, invoked |-> FALSE]
        ELSE IF ~h.raised /\ IsEmptyDF(h.ret)
        THEN [ret |-> Val("error404", Zero), ccache |-> ccache,
              mcache |-> h.mcache, invoked |-> TRUE]
        ELSE IF figErr \/ h.raised
        THEN [ret |-> Val("error500", Zero), ccache |-> ccache,
              mcache |-> h.mcache, invoked |-> TRUE]
        ELSE [ret |-> Val("chart", Zero),
              ccache |-> Store(ccache, cache_key, Val("chart", Zero)),
              mcache |-> h.mcache, invoked |-> TRUE]

CallChart ==
    /\ nCalls < MaxCalls
    /\ \E prov \in HistProv, figErr \in BOOLEAN :
        LET r == GetChart(historical_chart_cache, market_data_cache,
                          CacheSymbol, prov, figErr)
        IN  /\ historical_chart_cache' = r.ccache
            /\ market_data_cache' = r.mcache
            /\ chamada' = Call("chart", <<CacheSymbol, "1y", "1d">>,
                               r.invoked, r.ret, FALSE, FALSE)
    /\ nCalls' = nCalls + 1
    /\ UNCHANGED <<now, NEWS_API_KEY, nTicks, prediction_cache,
                   portfolio_cache, news_cache>>
    /\ UNCHANGED replayVars
    /\ UNCHANGED logVars
    /\ UNCHANGED webVars

\* calcular_posicoes_carteira(user_id), the loops taken whole
CalcularPosicoes(fcache, user_id, db, out) ==
    IF is_cache_fresh(fcache, user_id, PORTFOLIO_CACHE_TTL)
    THEN [ret |-> fcache[user_id].data, fcache |-> fcache,
          posicoes |-> <<>>, mcache |-> market_data_cache,
          pcache |-> prediction_cache, invoked |-> FALSE, alias |-> TRUE]
    ELSE IF db.err
    THEN [ret |-> TuplaVazia, fcache |-> fcache, posicoes |-> <<>>,
          mcache |-> market_data_cache, pcache |-> prediction_cache,
          invoked |-> TRUE, alias |-> FALSE]
    ELSE [invoked |-> TRUE] @@
         Fechar(fcache, user_id,
                LoopPosicoes(ReplayTodas(<<>>, db.rows), 1, Acc0, out))

CallPortfolio ==
    /\ nCalls < MaxCalls
    /\ \E db \in DbOutcomes :
         \E out \in [Held(ReplayTodas(<<>>, db.rows)) -> LookupOutcomes] :
            \E r \in {CalcularPosicoes(portfolio_cache, User, db, out)} :
                /\ portfolio_cache' = r.fcache
                /\ market_data_cache' = r.mcache
                /\ prediction_cache' = r.pcache
                /\ chamada' = Call("portfolio", <<User>>, r.invoked, r.ret,
                                   FALSE, r.alias)
    /\ nCalls' = nCalls + 1
    /\ UNCHANGED <<now, NEWS_API_KEY, nTicks, news_cache,
                   historical_chart_cache>>
    /\ UNCHANGED replayVars
    /\ UNCHANGED logVars
    /\ UNCHANGED webVars

NextCache ==
    \/ Tick
    \/ CallHist
    \/ CallPrice
    \/ CallPredicted
    \/ CallNews
    \/ CallChart
    \/ CallPortfolio

SpecCache == InitCache /\ [][NextCache]_vars

-----------------------------------------------------------------------------
(* Properties of the caches (SpecCache) *)

\* a step that is one call of a cached operation
PassoChamada(op) == nCalls' = nCalls + 1 /\ chamada'.op = op

\* the answer to the call against the entry the cache held under key when
\* the call was made: younger than ttl, the stored value and no computation;
\* otherwise the computation runs again
RespostaDoCache(cache, key, ttl) ==
    key \in DOMAIN cache =>
        IF now - cache[key].timestamp < ttl
        THEN ~chamada'.invoked /\ chamada'.ret = cache[key].data
        ELSE chamada'.invoked

\* C9: for each cached operation (history, current price, prediction,
\* portfolio snapshot, news, chart), a call made when the entry stored under
\* its key at time t is younger than the operation's TTL returns the stored
\* value without invoking the provider or the computation, and a call made
\* at age >= TTL invokes it again
C9_CacheFresco ==
    [][ /\ PassoChamada("hist") =>
             RespostaDoCache(market_data_cache, chamada'.key,
                             MARKET_DATA_CACHE_TTL)
        /\ PassoChamada("price") =>
             RespostaDoCache(market_data_cache, chamada'.key,
                             MARKET_DATA_CACHE_TTL)
        /\ PassoChamada("predicted") =>
             RespostaDoCache(prediction_cache, chamada'.key[1],
                             PREDICTION_CACHE_TTL)
        /\ PassoChamada("portfolio") =>
             RespostaDoCache(portfolio_cache, chamada'.key[1],
                             PORTFOLIO_CACHE_TTL)
        /\ PassoChamada("news") =>
             RespostaDoCache(news_cache, chamada'.key[1], NEWS_CACHE_TTL)
        /\ PassoChamada("chart") =>
             RespostaDoCache(historical_chart_cache, chamada'.key,
                             HISTORICAL_CHART_CACHE_TTL) ]_vars

\* the snapshot of a user who holds a position was answered from the cache
\* in the last second of its TTL
C9_Witness ==
    /\ chamada.op = "portfolio" /\ ~chamada.invoked
    /\ User \in DOMAIN portfolio_cache
    /\ now - portfolio_cache[User].timestamp = PORTFOLIO_CACHE_TTL - 1
    /\ chamada.ret = portfolio_cache[User].data
    /\ DOMAIN chamada.ret.posicoes = {CacheSymbol}

\* the call was computed and came back failed or empty: an exception, None,
\* an empty DataFrame, an empty article list, an error response, an empty
\* positions map
SemResultado(c) ==
    /\ c.invoked
    /\ \/ c.raised
       \/ c.op \in {"hist", "price", "predicted", "news", "chart"}
            /\ c.ret.kind \in {"None", "df_empty", "list_empty", "error404",
                               "error500"}
       \/ c.op = "portfolio" /\ c.ret.posicoes = <<>>

\* C10: a computation that fails or yields an empty or None result never
\* creates or replaces an entry in the cache of its operation; in particular
\* an empty article list and an empty positions map are not stored
C10_VazioNaoGuardado ==
    [][ (nCalls' = nCalls + 1 /\ SemResultado(chamada')) =>
          /\ chamada'.op \in {"hist", "price"} =>
                market_data_cache' = market_data_cache
          /\ chamada'.op = "predicted" => prediction_cache' = prediction_cache
          /\ chamada'.op = "portfolio" => portfolio_cache' = portfolio_cache
          /\ chamada'.op = "news" => news_cache' = news_cache
          /\ chamada'.op = "chart" =>
                historical_chart_cache' = historical_chart_cache ]_vars

\* C11: no cached operation hands its caller the mutable object its cache
\* holds, on a fresh hit or when it returns the value it has just stored, so
\* that a caller changing what it received changes no later cache read
C11_SemAlias ==
    chamada.op \in {"hist", "price", "predicted", "news", "chart",
                    "portfolio"} => ~chamada.alias

\* predict_price_api(simbolo): the status of the response, given what
\* get_predicted_price_for_display did; an exception it lets through is
\* answered by the framework with 500
predict_price_api(c) ==
    IF c.raised THEN 500
    ELSE IF c.ret # None THEN 200
    ELSE 404

\* C12: get_predicted_price_for_display never propagates an exception:
\* when train_and_predict_price raises or returns None the result is None,
\* nothing is cached, and /predict_price answers 'not available' (404)
C12_PrevisaoSemExcecao ==
    [][ PassoChamada("predicted") =>
          /\ ~chamada'.raised
          /\ (chamada'.invoked /\ chamada'.ret = None) =>
                /\ prediction_cache' = prediction_cache
                /\ predict_price_api(chamada') = 404 ]_vars

-----------------------------------------------------------------------------
(* Properties of the snapshot (SpecReplay), continued *)

\* C13: whatever the price and prediction lookups of the held symbols do,
\* the positions map returned by the computation contains every symbol whose
\* final quantity is > 0, each with the current price its lookup found
C13_PosicoesCompletas ==
    pc = "done" =>
        /\ DOMAIN retorno.posicoes = Held(estado_ativo)
        /\ \A s \in DOMAIN retorno.posicoes :
              <<s, "1d", "1m">> \in DOMAIN market_data_cache =>
                 retorno.posicoes[s].preco_atual =
                    market_data_cache[<<s, "1d", "1m">>].data

-----------------------------------------------------------------------------
(* The two market-data functions called directly, with any period and
   interval, on the cache they share *)

\* the pairs the callers pass, and the pair _get_current_price_yfinance
\* builds its own key from
AnyPeriods == HistPeriods \cup {<<"1d", "1m">>}

\* get_historical_prices_yfinance_cached(simbolo, period, interval)
CallHistDireto ==
    /\ nCalls < MaxCalls
    /\ \E pi \in AnyPeriods, prov \in HistProv :
        \E r \in {GetHist(market_data_cache, CacheSymbol, pi[1], pi[2],
                          prov)} :
            /\ market_data_cache' = r.mcache
            /\ chamada' = Call("hist", <<CacheSymbol, pi[1], pi[2]>>,
                               r.invoked, r.ret, r.raised, r.alias)
    /\ nCalls' = nCalls + 1
    /\ UNCHANGED <<now, NEWS_API_KEY, nTicks, prediction_cache,
                   portfolio_cache, news_cache, historical_chart_cache>>
    /\ UNCHANGED replayVars
    /\ UNCHANGED logVars
    /\ UNCHANGED webVars

NextMercado ==
    \/ Tick
    \/ CallPrice
    \/ CallHistDireto

SpecMercado == InitCache /\ [][NextMercado]_vars

\* C14: _get_current_price_yfinance and
\* get_historical_prices_yfinance_cached never propagate an exception:
\* whatever the provider does and whatever the cache holds, the first
\* returns a price or None and the second a table, empty on failure
C14_MercadoSemExcecao ==
    /\ chamada.op = "price" =>
          ~chamada.raised /\ chamada.ret.kind \in {"float", "None"}
    /\ chamada.op = "hist" => ~chamada.raised /\ IsDF(chamada.ret)

-----------------------------------------------------------------------------
(* Properties of the snapshot totals (SpecReplay) *)

\* the computation returned its tuple through the store, not through the
\* except branch
Sucesso == pc = "done" /\ User \in DOMAIN portfolio_cache

\* market value and profit or loss of one returned position, recomputed
\* from its price, average and quantity; both 0 when the price is unknown
ValorDe(p) ==
    IF p.preco_atual = None THEN Zero
    ELSE RMul(p.preco_atual.v, p.quantidade)
LucroDe(p) ==
    IF p.preco_atual = None THEN Zero
    ELSE RMul(RSub(p.preco_atual.v, p.preco_medio), p.quantidade)

\* the sum over the symbols of S of the value (k = 1), of the profits > 0
\* (k = 2), of the profits <= 0 (k = 3)
RECURSIVE SomaDe(_, _, _)
SomaDe(pos, S, k) ==
    IF S = {} THEN Zero
    ELSE LET s == CHOOSE x \in S : TRUE
         IN  RAdd(IF k = 1 THEN ValorDe(pos[s])
                  ELSE IF k = 2
                  THEN (IF RPos(LucroDe(pos[s])) THEN LucroDe(pos[s])
                        ELSE Zero)
                  ELSE (IF RPos(LucroDe(pos[s])) THEN Zero
                        ELSE LucroDe(pos[s])),
                  SomaDe(pos, S \ {s}, k))

\* C15: in every snapshot returned by a successful computation the total
\* market value is the sum of price * quantity over the positions with a
\* known price, the total gain the sum of the profits > 0, the total loss
\* the sum of the profits <= 0; a position with unknown price has value 0
\* and profit 0; so the gain is >= 0 and the loss <= 0
C15_Totais ==
    Sucesso =>
        /\ retorno.total_valor_carteira =
              SomaDe(retorno.posicoes, DOMAIN retorno.posicoes, 1)
        /\ retorno.total_lucro_nao_realizado =
              SomaDe(retorno.posicoes, DOMAIN retorno.posicoes, 2)
        /\ retorno.total_prejuizo_nao_realizado =
              SomaDe(retorno.posicoes, DOMAIN retorno.posicoes, 3)
        /\ \A s \in DOMAIN retorno.posicoes :
              /\ retorno.posicoes[s].valor_atual = ValorDe(retorno.posicoes[s])
              /\ retorno.posicoes[s].lucro_prejuizo_nao_realizado =
                    LucroDe(retorno.posicoes[s])
              /\ retorno.posicoes[s].preco_medio =
                    RDiv(estado_ativo[s].custo_acumulado,
                         estado_ativo[s].quantidade)
        /\ retorno.total_lucro_nao_realizado.n >= 0
        /\ retorno.total_prejuizo_nao_realizado.n <= 0

\* a snapshot was returned with the coin at a profit and the stock, bought
\* with fees, at a loss
C15_Witness ==
    /\ Sucesso
    /\ DOMAIN retorno.posicoes = {"BTC-USD", "PETR4.SA"}
    /\ RPos(retorno.total_lucro_nao_realizado)
    /\ RNeg(retorno.total_prejuizo_nao_realizado)
    /\ retorno.posicoes["PETR4.SA"].lucro_prejuizo_nao_realizado =
          retorno.total_prejuizo_nao_realizado

-----------------------------------------------------------------------------
(* The forms of a symbol: SYMBOL_MAPPING, the canonical ticker, the name  *)
(* shown.  A str is the sequence of its characters.                        *)

\* the ASCII letters and digits, str.upper() and str.isalnum() on them
Lower == <<"a", "b", "c", "d", "e", "f", "g", "h", "i", "j", "k", "l", "m", "n", "o", "p", "q", "r", "s", "t", "u", "v", "w", "x", "y", "z">>
Upper == <<"A", "B", "C", "D", "E", "F", "G", "H", "I", "J", "K", "L", "M", "N", "O", "P", "Q", "R", "S", "T", "U", "V", "W", "X", "Y", "Z">>
Digits == {"0", "1", "2", "3", "4", "5", "6", "7", "8", "9"}
Range(f) == {f[i] : i \in DOMAIN f}
UpperChar(c) ==
    IF c \in Range(Lower) THEN Upper[CHOOSE i \in DOMAIN Lower : Lower[i] = c]
    ELSE c
upper(s) == [i \in 1..Len(s) |-> UpperChar(s[i])]
isalnum(s) ==
    /\ s # <<>>
    /\ \A i \in 1..Len(s) : s[i] \in Range(Lower) \cup Range(Upper) \cup Digits
endswith(s, suf) ==
    /\ Len(s) >= Len(suf)
    /\ SubSeq(s, Len(s) - Len(suf) + 1, Len(s)) = suf
\* str.strip(): the blanks at both ends go
RECURSIVE lstrip(_)
lstrip(s) == IF s # <<>> /\ Head(s) = " " THEN lstrip(Tail(s)) ELSE s
RECURSIVE rstrip(_)
rstrip(s) ==
    IF s # <<>> /\ s[Len(s)] = " " THEN rstrip(SubSeq(s, 1, Len(s) - 1)) ELSE s
strip(s) == rstrip(lstrip(s))
\* str.replace(old, ''): every occurrence of old goes, left to right
RECURSIVE Remove(_, _)
Remove(s, old) ==
    IF Len(s) < Len(old) THEN s
    ELSE IF SubSeq(s, 1, Len(old)) = old
         THEN Remove(SubSeq(s, Len(old) + 1, Len(s)), old)
         ELSE <<Head(s)>> \o Remove(Tail(s), old)

\* the items of SYMBOL_MAPPING, in the order of the dict literal
SYMBOL_MAPPING ==
    << <<<<"P", "E", "T", "R", "O", "B", "R", "A", "S">>,
          <<"P", "E", "T", "R", "4", ".", "S", "A">>>>,
       <<<<"V", "A", "L", "E">>,
          <<"V", "A", "L", "E", "3", ".", "S", "A">>>>,
       <<<<"I", "T", "A", "U">>,
          <<"I", "T", "U", "B", "4", ".", "S", "A">>>>,
       <<<<"B", "R", "A", "D", "E", "S", "C", "O">>,
          <<"B", "B", "D", "C", "4", ".", "S", "A">>>>,
       <<<<"A", "M", "B", "E", "V">>,
          <<"A", "B", "E", "V", "3", ".", "S", "A">>>>,
       <<<<"B", "3">>,
          <<"B", "3", "S", "A", "3", ".", "S", "A">>>>,
       <<<<"W", "E", "G">>,
          <<"W", "E", "G", "E", "3", ".", "S", "A">>>>,
       <<<<"M", "A", "G", "A", "L", "U">>,
          <<"M", "G", "L", "U", "3", ".", "S", "A">>>>,
       <<<<"A", "M", "E", "R", "I", "C", "A", "N", "A", "S">>,
          <<"A", "M", "E", "R", "3", ".", "S", "A">>>>,
       <<<<"E", "L", "E", "T", "R", "O", "B", "R", "A", "S">>,
          <<"E", "L", "E", "T", "3", ".", "S", "A">>>>,
       <<<<"C", "O", "S", "A", "N">>,
          <<"C", "S", "A", "N", "3", ".", "S", "A">>>>,
       <<<<"I", "B", "O", "V", "E", "S", "P", "A">>,
          <<"^", "B", "V", "S", "P">>>>,
       <<<<"B", "I", "T", "C", "O", "I", "N">>,
          <<"B", "T", "C", "-", "U", "S", "D">>>>,
       <<<<"E", "T", "H", "E", "R", "E", "U", "M">>,
          <<"E", "T", "H", "-", "U", "S", "D">>>>,
       <<<<"O", "U", "R", "O", "_", "F", "U", "T", "U", "R", "O">>,
          <<"G", "C", "=", "F">>>>,
       <<<<"N", "A", "S", "D", "A", "Q", "_", "C", "O", "M", "P", "O", "S", "I", "T", "E">>,
          <<"^", "I", "X", "I", "C">>>>,
       <<<<"R", "U", "M", "O", " ", "S", ".", "A", ".">>,
          <<"R", "A", "I", "L", "3", ".", "S", "A">>>>,
       <<<<"D", "O", "W", "_", "J", "O", "N", "E", "S">>,
          <<"^", "D", "J", "I">>>> >>

\* dict.get(key, default) on a sequence of items: the last item of the key
Keys(d) == {d[i][1] : i \in DOMAIN d}
Get(d, key, default) ==
    IF key \in Keys(d)
    THEN d[CHOOSE i \in DOMAIN d :
              d[i][1] = key /\ \A j \in DOMAIN d : d[j][1] = key => j <= i][2]
    ELSE default

DotSA == <<".", "S", "A">>
\* the loop that fills REVERSE_SYMBOL_MAPPING: every branch assigns the
\* ticker, the first one the ticker without ".SA" as well ('.SA' in ticker
\* is a substring test)
Contains(s, sub) == \E i \in 1..(Len(s) - Len(sub) + 1) :
                       SubSeq(s, i, i + Len(sub) - 1) = sub
ReverseItems(item) ==
    IF Contains(item[2], DotSA)
    THEN << <<item[2], item[1]>>, <<Remove(item[2], DotSA), item[1]>> >>
    ELSE << <<item[2], item[1]>> >>
RECURSIVE ReverseFrom(_)
ReverseFrom(i) ==
    IF i > Len(SYMBOL_MAPPING) THEN <<>>
    ELSE ReverseItems(SYMBOL_MAPPING[i]) \o ReverseFrom(i + 1)
REVERSE_SYMBOL_MAPPING == ReverseFrom(1)

\* ['^', '-', '='] and the market suffixes of the canonicalization
Especiais == {"^", "-", "="}
Sufixos == {<<".", "S", "A">>, <<".", "B", "A">>, <<".", "T", "O">>, <<".", "L">>, <<".", "P", "A">>, <<".", "A", "X">>, <<".", "V">>, <<".", "F">>}

\* the canonicalization written inline in get_historical_prices_yfinance_cached
\* (and in the same words in _get_current_price_yfinance,
\* get_predicted_price_for_display and get_historical_chart_data)
final_simbolo_to_fetch(simbolo) ==
    LET mapped == Get(SYMBOL_MAPPING, upper(simbolo), simbolo)
    IN  IF /\ mapped = simbolo
           /\ ~\E i \in 1..Len(simbolo) : simbolo[i] \in Especiais
           /\ ~\E suf \in Sufixos : endswith(upper(simbolo), suf)
           /\ 4 <= Len(simbolo) /\ Len(simbolo) <= 6
           /\ isalnum(simbolo)
        THEN upper(simbolo) \o DotSA
        ELSE mapped

\* add_transaction: final_simbolo_para_processamento = simbolo_ativo.strip()
\* .upper(), the same canonicalization on it, and .upper() on the result
final_simbolo_para_processamento(simbolo_ativo) == upper(strip(simbolo_ativo))
MapearSimbolo(f) ==
    LET mapped == Get(SYMBOL_MAPPING, f, f)
    IN  IF /\ mapped = f
           /\ ~\E i \in 1..Len(f) : f[i] \in Especiais
           /\ ~\E suf \in Sufixos : endswith(upper(f), suf)
           /\ 4 <= Len(f) /\ Len(f) <= 6
           /\ isalnum(f)
        THEN upper(f) \o DotSA
        ELSE mapped
simbolo_ativo_yf(simbolo_ativo) ==
    upper(MapearSimbolo(final_simbolo_para_processamento(simbolo_ativo)))

\* 'nome_popular': REVERSE_SYMBOL_MAPPING.get(simbolo,
\*                     simbolo.replace('.SA', '').upper())
NomeSemRemover(simbolo) == Get(REVERSE_SYMBOL_MAPPING, simbolo, upper(simbolo))
nome_popular(simbolo) ==
    Get(REVERSE_SYMBOL_MAPPING, simbolo, upper(Remove(simbolo, DotSA)))

\* the symbols typed: an alias in capitals or not, a ticker of every kind
Aliases == {SYMBOL_MAPPING[i][1] : i \in DOMAIN SYMBOL_MAPPING}
lower(s) == [i \in 1..Len(s) |->
    IF s[i] \in Range(Upper) THEN Lower[CHOOSE k \in DOMAIN Upper : Upper[k] = s[i]]
    ELSE s[i]]
Entradas ==
    Aliases \cup {lower(a) : a \in Aliases} \cup
    { <<"X", "Y", "Z", "Q">>,
      <<"x", "y", "z", "q">>,
      <<"B", "T", "C", "-", "U", "S", "D">>,
      <<"b", "t", "c", "-", "u", "s", "d">>,
      <<"P", "E", "T", "R", "4", ".", "S", "A">>,
      <<"p", "e", "t", "r", "4", ".", "s", "a">>,
      <<"P", "E", "T", "R", "4">>,
      <<"p", "e", "t", "r", "4">>,
      <<"P", "e", "t", "r", "o", "b", "r", "a", "s">>,
      <<" ", "v", "a", "l", "e", " ">>,
      <<"A", "B", "C">>,
      <<"a", "b", "c">>,
      <<"A", "B", "C", "D", "E", "F", "G">>,
      <<"a", "b", "c", "d", "e", "f", "g">>,
      <<"^", "B", "V", "S", "P">>,
      <<"^", "b", "v", "s", "p">>,
      <<"G", "C", "=", "F">>,
      <<"g", "c", "=", "f">>,
      <<"A", "B", ".", "C", "D">>,
      <<"a", "b", ".", "c", "d">>,
      <<"S", "H", "O", "P", ".", "T", "O">>,
      <<"s", "h", "o", "p", ".", "t", "o">>,
      <<"X", "Y", "Z", "Q", ".", "S", "A">>,
      <<"A", "B", " ", "C", "D">>,
      <<"X", ".", "S", "A", "B", ".", "S", "A">>,
      <<"V", "A", "L", "E", "3">>,
      <<"B", "3", "S", "A", "3">>,
      <<"1", "2", "3", "4", "5">>,
      <<"a", "1">> }

-----------------------------------------------------------------------------
(* The symbol typed in a form or in a URL is resolved, the stored one shown *)

InitSimbolo == InitCache /\ NEWS_API_KEY

\* add_transaction with a symbol that is not blank, up to the INSERT
AddTransaction ==
    /\ \E s \in Entradas :
        /\ strip(s) # <<>>
        /\ canon' = [site |-> "add_transaction", simbolo |-> s,
                     simbolo_yf |-> simbolo_ativo_yf(s), nome_popular |-> <<>>]
    /\ UNCHANGED <<tabela, todas_transacoes, anterior, portfolio_cache>>
    /\ UNCHANGED replayVars
    /\ UNCHANGED cacheVars
    /\ UNCHANGED ctlVars
    /\ UNCHANGED webVars

\* get_historical_prices_yfinance_cached(simbolo, ...), up to its cache_key
ChaveHistorico ==
    /\ \E s \in Entradas :
        canon' = [site |-> "get_historical_prices_yfinance_cached",
                  simbolo |-> s, simbolo_yf |-> final_simbolo_to_fetch(s),
                  nome_popular |-> <<>>]
    /\ UNCHANGED <<tabela, todas_transacoes, anterior, portfolio_cache>>
    /\ UNCHANGED replayVars
    /\ UNCHANGED cacheVars
    /\ UNCHANGED ctlVars
    /\ UNCHANGED webVars

\* calcular_posicoes_carteira shows the symbol add_transaction stored
NomePopular ==
    /\ canon.site = "add_transaction"
    /\ canon' = [canon EXCEPT !.site = "calcular_posicoes_carteira",
                              !.nome_popular = nome_popular(canon.simbolo_yf)]
    /\ UNCHANGED <<tabela, todas_transacoes, anterior, portfolio_cache>>
    /\ UNCHANGED replayVars
    /\ UNCHANGED cacheVars
    /\ UNCHANGED ctlVars
    /\ UNCHANGED webVars

NextSimbolo == AddTransaction \/ ChaveHistorico \/ NomePopular

SpecSimbolo == InitSimbolo /\ [][NextSimbolo]_vars

-----------------------------------------------------------------------------
(* Properties of the symbol forms (SpecSimbolo) *)

\* the four rules, in order, on the symbol x the canonicalization is given
RegraAlias(x) == upper(x) \in Aliases
RegraQualificado(x) ==
    \/ \E i \in 1..Len(x) : x[i] \in Especiais
    \/ \E suf \in Sufixos : endswith(upper(x), suf)
RegraDomestico(x) == isalnum(x) /\ 4 <= Len(x) /\ Len(x) <= 6
Canonico(x) ==
    IF RegraAlias(x) THEN Get(SYMBOL_MAPPING, upper(x), x)
    ELSE IF RegraQualificado(x) THEN upper(x)
    ELSE IF RegraDomestico(x) THEN upper(x) \o DotSA
    ELSE upper(x)
\* what the site hands to its canonicalization
Visto == IF canon.site = "add_transaction" THEN strip(canon.simbolo)
         ELSE canon.simbolo
Conforme ==
    /\ canon.simbolo_yf = Canonico(Visto)
    /\ canon.simbolo_yf = upper(canon.simbolo_yf)
    /\ Canonico(canon.simbolo_yf) = canon.simbolo_yf

\* C16: at every site the canonical symbol is the one the four rules give
\* (alias first, then the qualified ticker kept, then ".SA" appended to 4 to
\* 6 alphanumeric characters, then the input verbatim), it is in capitals,
\* and canonicalizing it again returns it unchanged
C16_Canonicalizacao ==
    canon.site \in {"add_transaction", "get_historical_prices_yfinance_cached"}
        => Conforme

\* C17: the name shown for the canonical symbol of an alias is the alias in
\* capitals (so no two aliases share a ticker or a ticker without ".SA");
\* for a canonical symbol without alias it is the symbol without ".SA", in
\* capitals
SemAlias(ticker) ==
    \A i \in DOMAIN SYMBOL_MAPPING :
        /\ SYMBOL_MAPPING[i][2] # ticker
        /\ Remove(SYMBOL_MAPPING[i][2], DotSA) # ticker
C17_NomeInverso ==
    /\ \A i, j \in DOMAIN SYMBOL_MAPPING :
          i # j => /\ SYMBOL_MAPPING[i][2] # SYMBOL_MAPPING[j][2]
                   /\ Remove(SYMBOL_MAPPING[i][2], DotSA)
                         # Remove(SYMBOL_MAPPING[j][2], DotSA)
    /\ canon.site = "calcular_posicoes_carteira" =>
          /\ RegraAlias(strip(canon.simbolo)) =>
                canon.nome_popular = upper(strip(canon.simbolo))
          /\ SemAlias(canon.simbolo_yf) =>
                canon.nome_popular = upper(Remove(canon.simbolo_yf, DotSA))
C17_Witness ==
    /\ canon.site = "calcular_posicoes_carteira"
    /\ canon.simbolo = <<"p", "e", "t", "r", "o", "b", "r", "a", "s">>
    /\ canon.nome_popular = <<"P", "E", "T", "R", "O", "B", "R", "A", "S">>

-----------------------------------------------------------------------------
(* The transacoes table, the query of calcular_posicoes_carteira and the   *)
(* replay of what it returns                                               *)

\* the user whose positions are computed, and another user of the table
OutroUser == "u2"
\* hora_transacao TIME, nullable: no minute of the day is negative
NULL == -1
\* data_transacao (a day number) and hora_transacao (a minute, or NULL) of
\* the rows: a later time on an earlier day, an earlier time on a later day,
\* no time on the last day
Momentos == {<<1, 2>>, <<2, 1>>, <<3, NULL>>}

\* the largest of the quantities of a symbol
MaiorQtd(s) == CHOOSE q \in QtyChoices(s) : \A x \in QtyChoices(s) : RLeq(x, q)
\* the columns the query selects: a purchase and the sale of as much
Colunas(s) ==
    { [simbolo_ativo |-> s, tipo_operacao |-> "COMPRA",
       quantidade |-> MaiorQtd(s), preco_unitario |-> BuyPrice,
       custos_taxas |-> Zero],
      [simbolo_ativo |-> s, tipo_operacao |-> "VENDA",
       quantidade |-> MaiorQtd(s), preco_unitario |-> SellPrice,
       custos_taxas |-> Zero] }
\* a row of the table: id is its index in tabela (id SERIAL PRIMARY KEY)
Linha(u, m, c) ==
    [user_id |-> u, data_transacao |-> m[1], hora_transacao |-> m[2],
     simbolo_ativo |-> c.simbolo_ativo, tipo_operacao |-> c.tipo_operacao,
     quantidade |-> c.quantidade, preco_unitario |-> c.preco_unitario,
     custos_taxas |-> c.custos_taxas]
\* the rows add_transaction inserts: for User a purchase or a sale of the
\* stock at any of the moments, or a purchase of the coin; for the other
\* user a purchase of the stock
Compras(s) == {c \in Colunas(s) : c.tipo_operacao = "COMPRA"}
Linhas ==
    { Linha(User, m, c) : m \in Momentos, c \in Colunas("PETR4.SA") }
    \cup { Linha(User, <<2, 1>>, c) : c \in Compras("BTC-USD") }
    \cup { Linha(OutroUser, <<1, 2>>, c) : c \in Compras("PETR4.SA") }

\* SELECT simbolo_ativo, tipo_operacao, quantidade, preco_unitario,
\* custos_taxas
Selecionar(l) ==
    [simbolo_ativo |-> l.simbolo_ativo, tipo_operacao |-> l.tipo_operacao,
     quantidade |-> l.quantidade, preco_unitario |-> l.preco_unitario,
     custos_taxas |-> l.custos_taxas]

\* ORDER BY simbolo_ativo, data_transacao ASC, hora_transacao ASC: a sorts
\* strictly before b.  Two NULL times are equal; where NULL goes among the
\* times of one day depends on the database and is not decided here
HoraAntes(a, b) == a # NULL /\ b # NULL /\ a < b
Antes(a, b) ==
    \/ SymIdx(a.simbolo_ativo) < SymIdx(b.simbolo_ativo)
    \/ /\ a.simbolo_ativo = b.simbolo_ativo
       /\ \/ a.data_transacao < b.data_transacao
          \/ /\ a.data_transacao = b.data_transacao
             /\ HoraAntes(a.hora_transacao, b.hora_transacao)

\* WHERE user_id = %s: the ids of the rows of the user
IdsDe(tab, user_id) == {i \in DOMAIN tab : tab[i].user_id = user_id}
\* the orders in which the database may return these rows: every
\* arrangement of them that ORDER BY allows
Ordens(tab, ids) ==
    { o \in [1..Cardinality(ids) -> ids] :
        /\ \A i, j \in DOMAIN o : i # j => o[i] # o[j]
        /\ \A i, j \in DOMAIN o : i < j => ~Antes(tab[o[j]], tab[o[i]]) }
\* cursor_db.fetchall() for the order o
Fetchall(tab, o) == [i \in DOMAIN o |-> Selecionar(tab[o[i]])]

\* estado_ativo = {} of a new call, whatever the call before left in its own
EstadoHerdado(antes) == antes
NovoEstado(antes) == <<>>

InitLog == InitCache /\ NEWS_API_KEY

\* add_transaction: INSERT INTO transacoes
Inserir ==
    /\ Len(tabela) < MaxTx
    /\ \E l \in Linhas : tabela' = Append(tabela, l)
    /\ UNCHANGED <<todas_transacoes, anterior, canon, portfolio_cache>>
    /\ UNCHANGED replayVars
    /\ UNCHANGED cacheVars
    /\ UNCHANGED ctlVars
    /\ UNCHANGED webVars

\* calcular_posicoes_carteira(User) past its cache test: the query, fetchall
\* and the replay loop
Recalcular ==
    /\ nCalls < MaxCalls
    /\ \E o \in Ordens(tabela, IdsDe(tabela, User)) :
        /\ todas_transacoes' = Fetchall(tabela, o)
        /\ estado_ativo' =
              ReplayTodas(NovoEstado(estado_ativo), Fetchall(tabela, o))
    /\ anterior' = [feito |-> nCalls > 0, rows |-> todas_transacoes,
                    estado |-> estado_ativo]
    /\ nCalls' = nCalls + 1
    /\ UNCHANGED <<tabela, canon, portfolio_cache>>
    /\ UNCHANGED <<pc, idx, transacao, ramo, comprados, posicoes, retorno>>
    /\ UNCHANGED cacheVars
    /\ UNCHANGED <<now, NEWS_API_KEY, chamada, nTicks>>
    /\ UNCHANGED webVars

NextLog == Inserir \/ Recalcular

SpecLog == InitLog /\ [][NextLog]_vars

-----------------------------------------------------------------------------
(* Properties of the query and of the replay of its rows (SpecLog) *)

\* C18: when two calls replay the same rows in the same order, the second
\* ends with the per-symbol state the first ended with, whatever the first
\* left behind and whatever rows other users inserted in between
C18_ReplayIdempotente ==
    (anterior.feito /\ todas_transacoes = anterior.rows)
        => estado_ativo = anterior.estado
C18_Witness ==
    /\ anterior.feito
    /\ todas_transacoes = anterior.rows
    /\ Len(todas_transacoes) = 2
    /\ \E i \in DOMAIN tabela : tabela[i].user_id = OutroUser
    /\ Held(estado_ativo) # {}

\* the one order with ties broken by id
AntesComId(tab, i, j) ==
    \/ Antes(tab[i], tab[j])
    \/ ~Antes(tab[j], tab[i]) /\ i < j
OrdemPorId(tab, ids) ==
    CHOOSE o \in Ordens(tab, ids) :
        \A i, j \in DOMAIN o : i < j => AntesComId(tab, o[i], o[j])

\* C20: the rows of a symbol are replayed by date, then time, then id, so
\* the rows a call fetches and the state it ends with are the ones of that
\* one order
C20_OrdemTotal ==
    [][ nCalls' = nCalls + 1 =>
          \E rows \in {Fetchall(tabela, OrdemPorId(tabela, IdsDe(tabela, User)))} :
              /\ todas_transacoes' = rows
              /\ estado_ativo' = ReplayTodas(<<>>, rows) ]_vars

-----------------------------------------------------------------------------
(* The replay loop on rows in any order, and on the same rows rearranged *)

\* the rows given to the loop: of each symbol a purchase, the sale of as
\* much, and the sale of the smallest quantity with fees
MenorQtd(s) == CHOOSE q \in QtyChoices(s) : \A x \in QtyChoices(s) : RLeq(q, x)
VendaParcial(s) ==
    [simbolo_ativo |-> s, tipo_operacao |-> "VENDA", quantidade |-> MenorQtd(s),
     preco_unitario |-> SellPrice, custos_taxas |-> R(2, 1)]
LinhasDoLoop == UNION {Colunas(s) \cup {VendaParcial(s)} : s \in Symbols}
\* the arrangements of n rows
Arranjos(n) ==
    {p \in [1..n -> 1..n] : \A i, j \in 1..n : i # j => p[i] # p[j]}

InitLoop == InitCache /\ NEWS_API_KEY

\* the loop on up to MaxTx rows, in whatever order they come
ReplayDireto ==
    /\ nCalls = 0
    /\ \E n \in 0..MaxTx : \E rows \in [1..n -> LinhasDoLoop] :
        /\ todas_transacoes' = rows
        /\ estado_ativo' = ReplayTodas(NovoEstado(estado_ativo), rows)
    /\ anterior' = [feito |-> FALSE, rows |-> todas_transacoes,
                    estado |-> estado_ativo]
    /\ nCalls' = nCalls + 1
    /\ UNCHANGED <<tabela, canon, portfolio_cache>>
    /\ UNCHANGED <<pc, idx, transacao, ramo, comprados, posicoes, retorno>>
    /\ UNCHANGED cacheVars
    /\ UNCHANGED <<now, NEWS_API_KEY, chamada, nTicks>>
    /\ UNCHANGED webVars

\* the loop again, on the same rows in another arrangement
ReplayRearranjado ==
    /\ nCalls = 1
    /\ \E p \in Arranjos(Len(todas_transacoes)) :
        \E rows \in {[i \in DOMAIN p |-> todas_transacoes[p[i]]]} :
            /\ todas_transacoes' = rows
            /\ estado_ativo' = ReplayTodas(NovoEstado(estado_ativo), rows)
    /\ anterior' = [feito |-> TRUE, rows |-> todas_transacoes,
                    estado |-> estado_ativo]
    /\ nCalls' = nCalls + 1
    /\ UNCHANGED <<tabela, canon, portfolio_cache>>
    /\ UNCHANGED <<pc, idx, transacao, ramo, comprados, posicoes, retorno>>
    /\ UNCHANGED cacheVars
    /\ UNCHANGED <<now, NEWS_API_KEY, chamada, nTicks>>
    /\ UNCHANGED webVars

NextLoop == ReplayDireto \/ ReplayRearranjado

SpecLoop == InitLoop /\ [][NextLoop]_vars

-----------------------------------------------------------------------------
(* Properties of the loop on rearranged rows (SpecLoop) *)

\* the rows of symbol s, in the order they have in rows
DoSimbolo(rows, s) == SelectSeq(rows, LAMBDA r : r.simbolo_ativo = s)
MesmaOrdemPorSimbolo ==
    \A s \in Symbols :
        DoSimbolo(todas_transacoes, s) = DoSimbolo(anterior.rows, s)

\* C19: when the rows replayed are the rows of the replay before with the
\* rows of each symbol in the same relative order, every symbol ends with
\* the quantity and the accumulated cost it had then
C19_IndependenciaEntreSimbolos ==
    (anterior.feito /\ MesmaOrdemPorSimbolo) =>
        /\ DOMAIN estado_ativo = DOMAIN anterior.estado
        /\ \A s \in DOMAIN estado_ativo : estado_ativo[s] = anterior.estado[s]
C19_Witness ==
    /\ anterior.feito
    /\ MesmaOrdemPorSimbolo
    /\ todas_transacoes # anterior.rows
    /\ Len(todas_transacoes) = 3
    /\ Held(estado_ativo) = Symbols

-----------------------------------------------------------------------------
(* The calls to the providers, with the wait for the answer made visible   *)

\* the functions that call a provider themselves
\* (get_predicted_price_for_display calls none: its fetches are those of
\* get_historical_prices_yfinance_cached)
OpsExternas == {"news", "price", "hist"}
ChavesDe(op) ==
    IF op = "news" THEN {<<NewsQuery>>}
    ELSE IF op = "price" THEN {<<CacheSymbol, "1d", "1m">>}
    ELSE {<<CacheSymbol, pi[1], pi[2]>> : pi \in HistPeriods}
RespostasDe(op) ==
    IF op = "news" THEN NewsResp
    ELSE IF op = "price" THEN PriceProv
    ELSE HistProv

\* the function returns without asking the provider
SemProvedor(op, key) ==
    IF op = "news"
    THEN is_cache_fresh(news_cache, key[1], NEWS_CACHE_TTL) \/ ~NEWS_API_KEY
    ELSE is_cache_fresh(market_data_cache, key, MARKET_DATA_CACHE_TTL)

\* requests.get(NEWS_API_BASE_URL, params=params) passes no timeout and
\* requests then waits without limit; ticker.history(period=, interval=) is
\* called with the limit yfinance gives it
TemLimite(op) == op # "news"
\* the exception the provider call raises when it fails or its limit passes
Falha(op) == IF op = "news" THEN "reqerror" ELSE "error"

\* the function run to its return with the provider's answer prov
Resolver(op, key, prov) ==
    IF op = "news"
    THEN [mcache |-> market_data_cache,
          r |-> FetchNews(news_cache, key[1], prov)]
    ELSE IF op = "price"
    THEN [mcache |-> GetPrice(market_data_cache, key[1], prov).mcache,
          r |-> [alias |-> FALSE, raised |-> FALSE, ncache |-> news_cache]
                @@ GetPrice(market_data_cache, key[1], prov)]
    ELSE [mcache |-> GetHist(market_data_cache, key[1], key[2], key[3],
                             prov).mcache,
          r |-> [ncache |-> news_cache]
                @@ GetHist(market_data_cache, key[1], key[2], key[3], prov)]

\* the function is called: it returns from its cache (or for want of the
\* key) or sends its request and waits
Pedir ==
    /\ pc = "idle"
    /\ nCalls < MaxCalls
    /\ \E op \in OpsExternas : \E key \in ChavesDe(op) :
        IF SemProvedor(op, key)
        THEN \E x \in {Resolver(op, key, Falha(op))} :
                /\ chamada' = Call(op, key, x.r.invoked, x.r.ret, x.r.raised,
                                   x.r.alias)
                /\ pc' = "idle"
        ELSE /\ chamada' = Call(op, key, TRUE, None, FALSE, FALSE)
             /\ pc' = "waiting"
    /\ nCalls' = nCalls + 1
    /\ UNCHANGED <<idx, transacao, ramo, comprados, estado_ativo, posicoes,
                   retorno>>
    /\ UNCHANGED <<now, NEWS_API_KEY, nTicks, portfolio_cache>>
    /\ UNCHANGED cacheVars
    /\ UNCHANGED logVars
    /\ UNCHANGED webVars

\* what the waiting function does with the answer prov
Retomar(prov) ==
    \E x \in {Resolver(chamada.op, chamada.key, prov)} :
        /\ chamada' = Call(chamada.op, chamada.key, TRUE, x.r.ret,
                           x.r.raised, x.r.alias)
        /\ market_data_cache' = x.mcache
        /\ news_cache' = x.r.ncache
        /\ pc' = "idle"
        /\ UNCHANGED <<idx, transacao, ramo, comprados, estado_ativo,
                       posicoes, retorno>>
        /\ UNCHANGED <<now, NEWS_API_KEY, nCalls, nTicks, portfolio_cache,
                       prediction_cache, historical_chart_cache>>
        /\ UNCHANGED logVars
        /\ UNCHANGED webVars

\* the provider answers
Responder ==
    /\ pc = "waiting"
    /\ \E prov \in RespostasDe(chamada.op) : Retomar(prov)

\* the limit of the request passes: the call raises
Expirar ==
    /\ pc = "waiting"
    /\ TemLimite(chamada.op)
    /\ Retomar(Falha(chamada.op))

NextEspera == Pedir \/ Responder \/ Expirar

\* time passes, so a limit that exists is reached; the provider owes nothing
SpecEspera == InitCache /\ [][NextEspera]_vars /\ WF_vars(Expirar)

-----------------------------------------------------------------------------
(* Properties of the waits (SpecEspera) *)

\* C21: a call that waits for its provider returns in the end, the provider
\* answering or not
C21_SempreRetorna == (pc = "waiting") ~> (pc = "idle")

-----------------------------------------------------------------------------
(* The forms of add_transaction and edit_transaction, and what they store  *)

DigitSeq == <<"0", "1", "2", "3", "4", "5", "6", "7", "8", "9">>
DigitVal(c) == (CHOOSE i \in DOMAIN DigitSeq : DigitSeq[i] = c) - 1
AllDigits(s) == \A i \in 1..Len(s) : s[i] \in Digits
RECURSIVE IntOf(_)
IntOf(s) ==
    IF s = <<>> THEN 0
    ELSE 10 * IntOf(SubSeq(s, 1, Len(s) - 1)) + DigitVal(s[Len(s)])
RECURSIVE Pow10(_)
Pow10(k) == IF k = 0 THEN 1 ELSE 10 * Pow10(k - 1)
\* decimal.Decimal(s) on a string that is a sign, digits and at most one
\* point, or is no number at all: the value, or InvalidOperation
DecimalSemSinal(s) ==
    IF \E i \in 1..Len(s) : s[i] = "."
    THEN LET p == CHOOSE i \in 1..Len(s) : s[i] = "."
             int == SubSeq(s, 1, p - 1)
             frac == SubSeq(s, p + 1, Len(s))
         IN  IF AllDigits(int) /\ AllDigits(frac) /\ Len(int) + Len(frac) > 0
             THEN [ok |-> TRUE,
                   v |-> R(IntOf(int) * Pow10(Len(frac)) + IntOf(frac),
                           Pow10(Len(frac)))]
             ELSE [ok |-> FALSE, v |-> Zero]
    ELSE IF s # <<>> /\ AllDigits(s)
    THEN [ok |-> TRUE, v |-> R(IntOf(s), 1)]
    ELSE [ok |-> FALSE, v |-> Zero]
Decimal(s) ==
    IF s # <<>> /\ s[1] = "-"
    THEN [ok |-> DecimalSemSinal(Tail(s)).ok,
          v |-> RNegate(DecimalSemSinal(Tail(s)).v)]
    ELSE DecimalSemSinal(s)

\* datetime.datetime.strptime(s, '%Y-%m-%d') on the two dates typed: the day
\* number, or ValueError (0)
DataBoa == "2024-01-02"
DataRuim == "02/01/2024"
strptime(s) == IF s = DataBoa THEN 2 ELSE 0

\* what is typed in the fields of quantity, price and fees
Txt10 == <<"1", "0">>
Txt100 == <<"1", "0", "0">>
Txt000 == <<"0", ".", "0", "0">>
Txt250 == <<"2", ".", "5", "0">>
Txt0 == <<"0">>
TxtMenos1 == <<"-", "1">>
TxtMenos5 == <<"-", "5">>
TxtAbc == <<"a", "b", "c">>

\* request.form of a POST: a form that passes, and the same form with one
\* field changed
FormBase ==
    [data_transacao |-> DataBoa, simbolo_ativo |-> CacheSymbol,
     quantidade |-> Txt10, preco_unitario |-> Txt100,
     tipo_operacao |-> "COMPRA", custos_taxas |-> Txt000]
Forms ==
    {FormBase}
    \cup {[FormBase EXCEPT !.data_transacao = DataRuim]}
    \cup {[FormBase EXCEPT !.quantidade = x] : x \in {Txt0, TxtMenos1, TxtAbc}}
    \cup {[FormBase EXCEPT !.preco_unitario = x] : x \in {Txt0, TxtAbc}}
    \cup {[FormBase EXCEPT !.custos_taxas = x] : x \in {Txt250, TxtMenos5, TxtAbc}}
    \cup {[FormBase EXCEPT !.tipo_operacao = x] : x \in {"VENDA", "DOACAO"}}

\* the tests of add_transaction before its INSERT (edit_transaction makes
\* the same ones before its UPDATE): the date, the three decimals,
\* quantidade <= 0, preco_unitario <= 0
Aceite(f) ==
    /\ strptime(f.data_transacao) # 0
    /\ Decimal(f.quantidade).ok
    /\ Decimal(f.preco_unitario).ok
    /\ Decimal(f.custos_taxas).ok
    /\ RPos(Decimal(f.quantidade).v)
    /\ RPos(Decimal(f.preco_unitario).v)
\* the table has CHECK (tipo_operacao IN ('COMPRA', 'VENDA')) when
\* create_db.py made it and has none when the application made it; with
\* the CHECK the statement raises and the handler reports the error
PassaCheck(f, check) == ~check \/ f.tipo_operacao \in {"COMPRA", "VENDA"}
\* the row written
LinhaDoForm(f) ==
    [user_id |-> User, data_transacao |-> strptime(f.data_transacao),
     hora_transacao |-> NULL, simbolo_ativo |-> f.simbolo_ativo,
     tipo_operacao |-> f.tipo_operacao,
     quantidade |-> Decimal(f.quantidade).v,
     preco_unitario |-> Decimal(f.preco_unitario).v,
     custos_taxas |-> Decimal(f.custos_taxas).v]

InitForm == InitCache /\ NEWS_API_KEY

\* POST /add_transaction
PostAdd ==
    /\ Len(tabela) < MaxTx
    /\ \E f \in Forms, check \in BOOLEAN :
        IF Aceite(f) /\ PassaCheck(f, check)
        THEN /\ tabela' = Append(tabela, LinhaDoForm(f))
             /\ chamada' = Call("add_transaction", f, TRUE, None, FALSE, FALSE)
        ELSE /\ tabela' = tabela
             /\ chamada' = Call("add_transaction", f, FALSE, None, FALSE,
                                FALSE)
    /\ UNCHANGED <<todas_transacoes, anterior, canon, portfolio_cache>>
    /\ UNCHANGED replayVars
    /\ UNCHANGED cacheVars
    /\ UNCHANGED <<now, NEWS_API_KEY, nCalls, nTicks>>
    /\ UNCHANGED webVars

\* POST /edit_transaction/<id> for a row of the user
PostEdit ==
    /\ \E id \in IdsDe(tabela, User), f \in Forms, check \in BOOLEAN :
        IF Aceite(f) /\ PassaCheck(f, check)
        THEN /\ tabela' = [tabela EXCEPT ![id] = LinhaDoForm(f)]
             /\ chamada' = Call("edit_transaction", f, TRUE, None, FALSE,
                                FALSE)
        ELSE /\ tabela' = tabela
             /\ chamada' = Call("edit_transaction", f, FALSE, None, FALSE,
                                FALSE)
    /\ UNCHANGED <<todas_transacoes, anterior, canon, portfolio_cache>>
    /\ UNCHANGED replayVars
    /\ UNCHANGED cacheVars
    /\ UNCHANGED <<now, NEWS_API_KEY, nCalls, nTicks>>
    /\ UNCHANGED webVars

NextForm == PostAdd \/ PostEdit

SpecForm == InitForm /\ [][NextForm]_vars

-----------------------------------------------------------------------------
(* Properties of the forms (SpecForm) *)

BemFormada(l) ==
    /\ RPos(l.quantidade)
    /\ RPos(l.preco_unitario)
    /\ ~RNeg(l.custos_taxas)
    /\ l.tipo_operacao \in {"COMPRA", "VENDA"}
FormBemFormado(f) ==
    /\ strptime(f.data_transacao) # 0
    /\ Decimal(f.quantidade).ok
    /\ Decimal(f.preco_unitario).ok
    /\ Decimal(f.custos_taxas).ok
    /\ BemFormada(LinhaDoForm(f))

\* C22: every stored row has quantity > 0, price > 0, fees >= 0 and kind
\* COMPRA or VENDA, and a request that breaks one of these, or whose date or
\* decimals do not parse, leaves the table as it was
C22_LinhasBemFormadas ==
    /\ \A i \in DOMAIN tabela : BemFormada(tabela[i])
    /\ (chamada.op \in {"add_transaction", "edit_transaction"}
          /\ ~FormBemFormado(chamada.key)) => ~chamada.invoked

-----------------------------------------------------------------------------
(* Requests for the positions of one user served at the same time, each in *)
(* its own thread, all on the module-level caches                          *)

\* the query raises, or returns a purchase of the stock, or a purchase of
\* each symbol
DbConc ==
    { [err |-> TRUE, rows |-> <<>>],
      [err |-> FALSE,
       rows |-> << [simbolo_ativo |-> "PETR4.SA", tipo_operacao |-> "COMPRA",
                    quantidade |-> R(10, 1), preco_unitario |-> BuyPrice,
                    custos_taxas |-> R(5, 1)] >>],
      [err |-> FALSE,
       rows |-> << [simbolo_ativo |-> "BTC-USD", tipo_operacao |-> "COMPRA",
                    quantidade |-> R(1, 50000), preco_unitario |-> BuyPrice,
                    custos_taxas |-> Zero],
                   [simbolo_ativo |-> "PETR4.SA", tipo_operacao |-> "COMPRA",
                    quantidade |-> R(10, 1), preco_unitario |-> BuyPrice,
                    custos_taxas |-> R(5, 1)] >>] }
\* the provider's answers to the lookups of a symbol in these requests
LookupConc == {o \in LookupOutcomes : o.r1 = "df_full" /\ o.r2 = "df_full"}

\* posicoes = {} and the three totals at 0.0: the locals of a request (the
\* caches are not local, the fields for them stay empty between the steps)
SoLocais(acc) == [acc EXCEPT !.mcache = <<>>, !.pcache = <<>>]
ComCaches(acc) ==
    [acc EXCEPT !.mcache = market_data_cache, !.pcache = prediction_cache]
\* a request that has just arrived; seq numbers the writes to portfolio_cache
ReqNovo ==
    [pc |-> "start", estado |-> <<>>, i |-> 0, acc |-> SoLocais(Acc0),
     calc |-> NoRet, ret |-> NoRet, seq |-> 0]
Escritas == Cardinality({u \in DOMAIN reqs : reqs[u].seq > 0})

InitConc == InitCache /\ NEWS_API_KEY

\* a request for the positions of User arrives
Chegar ==
    /\ Len(reqs) < MaxCalls
    /\ reqs' = Append(reqs, ReqNovo)
    /\ UNCHANGED <<users, session, portfolio_cache>>
    /\ UNCHANGED replayVars
    /\ UNCHANGED cacheVars
    /\ UNCHANGED ctlVars
    /\ UNCHANGED logVars

\* if is_cache_fresh(portfolio_cache, cache_key, PORTFOLIO_CACHE_TTL)
Testar(t) ==
    /\ reqs[t].pc = "start"
    /\ reqs' = [reqs EXCEPT ![t].pc =
                  IF is_cache_fresh(portfolio_cache, User, PORTFOLIO_CACHE_TTL)
                  THEN "hit" ELSE "miss"]
    /\ UNCHANGED <<users, session, portfolio_cache>>
    /\ UNCHANGED replayVars
    /\ UNCHANGED cacheVars
    /\ UNCHANGED ctlVars
    /\ UNCHANGED logVars

\* return portfolio_cache[cache_key]['data']
Ler(t) ==
    /\ reqs[t].pc = "hit"
    /\ reqs' = [reqs EXCEPT ![t].pc = "done",
                            ![t].ret = portfolio_cache[User].data]
    /\ UNCHANGED <<users, session, portfolio_cache>>
    /\ UNCHANGED replayVars
    /\ UNCHANGED cacheVars
    /\ UNCHANGED ctlVars
    /\ UNCHANGED logVars

\* the locals are set, the query runs and its rows are replayed
Consultar(t) ==
    /\ reqs[t].pc = "miss"
    /\ \E db \in DbConc :
        reqs' = IF db.err
                THEN [reqs EXCEPT ![t].pc = "done", ![t].ret = TuplaVazia]
                ELSE [reqs EXCEPT ![t].pc = "loop", ![t].i = 1,
                                  ![t].estado = ReplayTodas(<<>>, db.rows)]
    /\ UNCHANGED <<users, session, portfolio_cache>>
    /\ UNCHANGED replayVars
    /\ UNCHANGED cacheVars
    /\ UNCHANGED ctlVars
    /\ UNCHANGED logVars

\* one iteration of the positions loop
Passo(t) ==
    /\ reqs[t].pc = "loop"
    /\ reqs[t].i <= Len(SymSeq)
    /\ ~reqs[t].acc.raised
    /\ \E o \in LookupConc :
        \E a \in {PassoPosicao(reqs[t].estado, SymSeq[reqs[t].i],
                               ComCaches(reqs[t].acc),
                               [x \in {SymSeq[reqs[t].i]} |-> o])} :
            /\ market_data_cache' = a.mcache
            /\ prediction_cache' = a.pcache
            /\ reqs' = [reqs EXCEPT ![t].acc = SoLocais(a),
                                    ![t].i = reqs[t].i + 1]
    /\ UNCHANGED <<users, session, portfolio_cache, news_cache,
                   historical_chart_cache>>
    /\ UNCHANGED replayVars
    /\ UNCHANGED ctlVars
    /\ UNCHANGED logVars

\* the loop is left: the except branch, or the store and the return
Terminar(t) ==
    /\ reqs[t].pc = "loop"
    /\ reqs[t].i > Len(SymSeq) \/ reqs[t].acc.raised
    /\ \E f \in {Fechar(portfolio_cache, User, reqs[t].acc)} :
        /\ portfolio_cache' = f.fcache
        /\ reqs' = [reqs EXCEPT
                      ![t].pc = "done", ![t].ret = f.ret,
                      ![t].calc = IF reqs[t].acc.raised THEN NoRet ELSE f.ret,
                      ![t].seq = IF reqs[t].acc.raised THEN 0
                                 ELSE Escritas + 1]
    /\ UNCHANGED <<users, session>>
    /\ UNCHANGED replayVars
    /\ UNCHANGED cacheVars
    /\ UNCHANGED ctlVars
    /\ UNCHANGED logVars

NextConc ==
    \/ Chegar
    \/ \E t \in DOMAIN reqs :
        Testar(t) \/ Ler(t) \/ Consultar(t) \/ Passo(t) \/ Terminar(t)

SpecConc == InitConc /\ [][NextConc]_vars

-----------------------------------------------------------------------------
(* Properties of the requests served together (SpecConc) *)

\* the tuples that computations have finished and written
Calculadas == {reqs[u].calc : u \in {x \in DOMAIN reqs : reqs[x].seq > 0}}

\* C23: whatever the interleaving, the entry of the user and every value a
\* request returned from it is the whole tuple of one computation, and when
\* every request has finished the entry is the tuple written last
C23_EntradaInteira ==
    /\ User \in DOMAIN portfolio_cache =>
          portfolio_cache[User].data \in Calculadas
    /\ \A t \in DOMAIN reqs :
          (reqs[t].pc = "done" /\ reqs[t].ret # TuplaVazia) =>
              reqs[t].ret \in Calculadas
    /\ ((\A t \in DOMAIN reqs : reqs[t].pc = "done") /\ Escritas > 0) =>
          \E u \in DOMAIN reqs :
              /\ reqs[u].seq = Escritas
              /\ portfolio_cache[User].data = reqs[u].calc
C23_Witness ==
    /\ Len(reqs) = 2
    /\ \A t \in DOMAIN reqs : reqs[t].pc = "done" /\ reqs[t].seq > 0
    /\ reqs[1].calc # reqs[2].calc
    /\ reqs[1].seq = 2
    /\ DOMAIN reqs[1].calc.posicoes = {"PETR4.SA"}
    /\ DOMAIN reqs[2].calc.posicoes = {"BTC-USD", "PETR4.SA"}

-----------------------------------------------------------------------------
(* Properties of the keys of market_data_cache (SpecMercado) *)

\* only _get_current_price_yfinance stores a float and only
\* get_historical_prices_yfinance_cached stores a table
DoPreco(entry) == entry.data.kind = "float"
DoHistorico(entry) == IsDF(entry.data)

\* C24: a hit of the current price never returns what the history function
\* stored, and a hit of the history function never reads what the current
\* price stored, for every period and interval, "1d" with "1m" included
C24_ChavesDistintas ==
    (chamada.op \in {"price", "hist"} /\ ~chamada.invoked) =>
        /\ chamada.key \in DOMAIN market_data_cache
        /\ chamada.op = "price" => ~DoHistorico(market_data_cache[chamada.key])
        /\ chamada.op = "hist" => ~DoPreco(market_data_cache[chamada.key])

-----------------------------------------------------------------------------
(* Properties of the snapshot of a user across calls (SpecCache) *)

\* the snapshot recorded a position whose current price or prediction is None
SemPreco(t) ==
    \E s \in DOMAIN t.posicoes :
        \/ t.posicoes[s].preco_atual = None
        \/ t.posicoes[s].preco_previsto = None

\* C25: once a snapshot has recorded a missing price or prediction for a held
\* symbol, the next calcular_posicoes_carteira of the user computes again,
\* whatever the age of the snapshot
C25_FalhaNaoSuprimida ==
    [][(/\ nCalls' = nCalls + 1
        /\ chamada'.op = "portfolio"
        /\ User \in DOMAIN portfolio_cache
        /\ SemPreco(portfolio_cache[User].data))
       => chamada'.invoked]_vars

-----------------------------------------------------------------------------
(* The transaction log changed between two snapshots of the portfolio *)

\* the table without its i-th row
SemLinha(tab, i) ==
    [j \in 1..(Len(tab) - 1) |-> IF j < i THEN tab[j] ELSE tab[j + 1]]
\* the sessions that post: user_id = session.get('user_id')
Sessoes == {User, OutroUser}

\* the rows the form of edit_transaction makes of row l: the operation or
\* the symbol changed, its owner and its moment kept
Edicoes(l) ==
    { e \in Linhas : /\ e # l
                     /\ e.user_id = l.user_id
                     /\ e.data_transacao = l.data_transacao
                     /\ e.hora_transacao = l.hora_transacao }

InitMutacao == InitCache /\ NEWS_API_KEY

\* edit_transaction: UPDATE transacoes SET ... WHERE id = %s AND user_id = %s
Editar ==
    /\ \E u \in Sessoes, i \in DOMAIN tabela :
        /\ tabela[i].user_id = u
        /\ \E l \in Edicoes(tabela[i]) : tabela' = [tabela EXCEPT ![i] = l]
    /\ UNCHANGED <<todas_transacoes, anterior, canon, portfolio_cache>>
    /\ UNCHANGED replayVars
    /\ UNCHANGED cacheVars
    /\ UNCHANGED ctlVars
    /\ UNCHANGED webVars

\* delete_transaction: DELETE FROM transacoes WHERE id = %s AND user_id = %s
Apagar ==
    /\ \E u \in Sessoes, i \in DOMAIN tabela :
        /\ tabela[i].user_id = u
        /\ tabela' = SemLinha(tabela, i)
    /\ UNCHANGED <<todas_transacoes, anterior, canon, portfolio_cache>>
    /\ UNCHANGED replayVars
    /\ UNCHANGED cacheVars
    /\ UNCHANGED ctlVars
    /\ UNCHANGED webVars

\* the outcomes of the query of calcular_posicoes_carteira on the table: it
\* raises, or returns the rows of the user in an order ORDER BY allows
DbDaTabela(tab, user_id) ==
    {[err |-> TRUE, rows |-> <<>>]}
    \cup {[err |-> FALSE, rows |-> Fetchall(tab, o)] :
            o \in Ordens(tab, IdsDe(tab, user_id))}

\* calcular_posicoes_carteira(User) on the rows the table holds
CarteiraDoLog ==
    /\ nCalls < MaxCalls
    /\ \E db \in DbDaTabela(tabela, User) :
         \E out \in [Held(ReplayTodas(<<>>, db.rows)) -> LookupConc] :
            \E r \in {CalcularPosicoes(portfolio_cache, User, db, out)} :
                /\ portfolio_cache' = r.fcache
                /\ market_data_cache' = r.mcache
                /\ prediction_cache' = r.pcache
                /\ chamada' = Call("portfolio", <<User>>, r.invoked, r.ret,
                                   FALSE, r.alias)
    /\ nCalls' = nCalls + 1
    /\ UNCHANGED <<now, NEWS_API_KEY, nTicks, news_cache,
                   historical_chart_cache>>
    /\ UNCHANGED replayVars
    /\ UNCHANGED logVars
    /\ UNCHANGED webVars

NextMutacao == Tick \/ Inserir \/ Editar \/ Apagar \/ CarteiraDoLog

SpecMutacao == InitMutacao /\ [][NextMutacao]_vars

\* the positions p are those of the replayed state: the symbols held, each
\* with its quantity and its average
PosicoesDoEstado(p, estado) ==
    /\ DOMAIN p = Held(estado)
    /\ \A s \in DOMAIN p :
        /\ p[s].quantidade = estado[s].quantidade
        /\ p[s].preco_medio =
              RDiv(estado[s].custo_acumulado, estado[s].quantidade)
\* the positions p are a replay of the rows the table holds for the user
ReplayDaTabela(p, tab, user_id) ==
    \E o \in Ordens(tab, IdsDe(tab, user_id)) :
        PosicoesDoEstado(p, ReplayTodas(<<>>, Fetchall(tab, o)))

\* C26: the snapshot calcular_posicoes_carteira returns for a user is a
\* replay of the transaction log as add_transaction, edit_transaction and
\* delete_transaction have left it, not of the log before the change
C26_MutacaoInvalida ==
    [][(/\ nCalls' = nCalls + 1
        /\ chamada'.op = "portfolio"
        /\ chamada'.alias)
       => ReplayDaTabela(chamada'.ret.posicoes, tabela, User)]_vars

-----------------------------------------------------------------------------
(* One symbol typed, resolved at each of the sites that canonicalize *)

\* edit_transaction: the form field as it came, the same canonicalization on
\* it, and .upper() on the result
simbolo_ativo_yf_edit(f) == upper(final_simbolo_to_fetch(f))
\* _get_current_price_yfinance: final_simbolo_to_fetch of its cache_key
final_simbolo_to_fetch_price(simbolo) == final_simbolo_to_fetch(simbolo)
\* get_predicted_price_for_display: its cache_key
simbolo_yf_for_prediction(simbolo) == final_simbolo_to_fetch(simbolo)
\* get_historical_chart_data: the symbol of its cache_key
simbolo_yf(simbolo) == final_simbolo_to_fetch(simbolo)
\* buscar_transacoes_filtradas: no filter for an empty simbolo_filtro or for
\* 'none' in any case
final_simbolo_to_fetch_for_filter(simbolo_filtro) ==
    IF simbolo_filtro = <<>> \/ lower(simbolo_filtro) = <<"n", "o", "n", "e">>
    THEN <<>>
    ELSE final_simbolo_to_fetch(simbolo_filtro)

\* the canonicalization of site on the symbol s
NoSitio(site, s) ==
    CASE site = "add_transaction" -> simbolo_ativo_yf(s)
      [] site = "edit_transaction" -> simbolo_ativo_yf_edit(s)
      [] site = "get_historical_prices_yfinance_cached" ->
            final_simbolo_to_fetch(s)
      [] site = "_get_current_price_yfinance" ->
            final_simbolo_to_fetch_price(s)
      [] site = "get_predicted_price_for_display" ->
            simbolo_yf_for_prediction(s)
      [] site = "get_historical_chart_data" -> simbolo_yf(s)
      [] site = "buscar_transacoes_filtradas" ->
            final_simbolo_to_fetch_for_filter(s)
Resolvido(site, s) ==
    [site |-> site, simbolo |-> s, simbolo_yf |-> NoSitio(site, s),
     nome_popular |-> <<>>]

InitSitios == InitCache /\ NEWS_API_KEY

\* edit_transaction with a symbol that is not blank, up to the UPDATE
EditTransaction ==
    /\ \E s \in Entradas :
        /\ strip(s) # <<>>
        /\ canon' = Resolvido("edit_transaction", s)
    /\ UNCHANGED <<tabela, todas_transacoes, anterior, portfolio_cache>>
    /\ UNCHANGED replayVars
    /\ UNCHANGED cacheVars
    /\ UNCHANGED ctlVars
    /\ UNCHANGED webVars

\* _get_current_price_yfinance(simbolo), up to its cache_key
ChavePreco ==
    /\ \E s \in Entradas : canon' = Resolvido("_get_current_price_yfinance", s)
    /\ UNCHANGED <<tabela, todas_transacoes, anterior, portfolio_cache>>
    /\ UNCHANGED replayVars
    /\ UNCHANGED cacheVars
    /\ UNCHANGED ctlVars
    /\ UNCHANGED webVars

\* get_predicted_price_for_display(simbolo), up to its cache_key
ChavePrevisao ==
    /\ \E s \in Entradas :
        canon' = Resolvido("get_predicted_price_for_display", s)
    /\ UNCHANGED <<tabela, todas_transacoes, anterior, portfolio_cache>>
    /\ UNCHANGED replayVars
    /\ UNCHANGED cacheVars
    /\ UNCHANGED ctlVars
    /\ UNCHANGED webVars

\* get_historical_chart_data(simbolo), up to its cache_key
ChaveGrafico ==
    /\ \E s \in Entradas : canon' = Resolvido("get_historical_chart_data", s)
    /\ UNCHANGED <<tabela, todas_transacoes, anterior, portfolio_cache>>
    /\ UNCHANGED replayVars
    /\ UNCHANGED cacheVars
    /\ UNCHANGED ctlVars
    /\ UNCHANGED webVars

\* buscar_transacoes_filtradas(..., simbolo_filtro), up to its WHERE clause
FiltroTransacoes ==
    /\ \E s \in Entradas : canon' = Resolvido("buscar_transacoes_filtradas", s)
    /\ UNCHANGED <<tabela, todas_transacoes, anterior, portfolio_cache>>
    /\ UNCHANGED replayVars
    /\ UNCHANGED cacheVars
    /\ UNCHANGED ctlVars
    /\ UNCHANGED webVars

NextSitios ==
    \/ AddTransaction
    \/ EditTransaction
    \/ ChaveHistorico
    \/ ChavePreco
    \/ ChavePrevisao
    \/ ChaveGrafico
    \/ FiltroTransacoes

SpecSitios == InitSitios /\ [][NextSitios]_vars

\* the sites that store the symbol and the sites that look it up
SitiosQueGravam == {"add_transaction", "edit_transaction"}
SitiosQueProcuram ==
    {"get_historical_prices_yfinance_cached", "_get_current_price_yfinance",
     "get_predicted_price_for_display", "get_historical_chart_data",
     "buscar_transacoes_filtradas"}

\* C27: for every symbol typed, capitals or not, the symbol a lookup site
\* uses as cache key, ticker or filter is the symbol add_transaction and
\* edit_transaction store for it
C27_SitiosConcordam ==
    canon.site \in SitiosQueProcuram \cup SitiosQueGravam =>
        \A g \in SitiosQueGravam :
            canon.simbolo_yf = NoSitio(g, canon.simbolo)

-----------------------------------------------------------------------------
(* The weighted average of an entry across one row (SpecReplay) *)

\* custo_acumulado / quantidade of an entry that holds something
Medio(e) == RDiv(e.custo_acumulado, e.quantidade)

\* C28: on a symbol holding Q > 0 at cost C, a VENDA of q < Q with no fees
\* that leaves more than the tolerance keeps the average C / Q, and a COMPRA
\* of q at p with fees f moves it to (C + q * p + f) / (Q + q)
C28_MedioPonderado ==
    [][LET t == transacao'
           e == Entrada(estado_ativo, t.simbolo_ativo)
       IN  /\ (/\ PassoDe("VENDA")
               /\ ramo' = "venda_parcial"
               /\ t.custos_taxas = Zero)
              => Medio(estado_ativo'[t.simbolo_ativo]) = Medio(e)
           /\ (PassoDe("COMPRA") /\ RPos(e.quantidade))
              => Medio(estado_ativo'[t.simbolo_ativo]) =
                    RDiv(RAdd(e.custo_acumulado,
                              RAdd(RMul(t.quantidade, t.preco_unitario),
                                   t.custos_taxas)),
                         RAdd(e.quantidade, t.quantidade))]_vars

\* 10 bought for 1005, then 4 sold with no fees: 6 are left at 603, the
\* average still 100.5
C28_Witness ==
    /\ pc = "replay" /\ ramo = "venda_parcial" /\ idx = 2
    /\ transacao.simbolo_ativo = "PETR4.SA"
    /\ transacao.custos_taxas = Zero
    /\ estado_ativo["PETR4.SA"] =
         [quantidade |-> R(6, 1), custo_acumulado |-> R(603, 1)]
    /\ Medio(estado_ativo["PETR4.SA"]) = R(201, 2)

-----------------------------------------------------------------------------
(* The users table, the sessions and the administration routes *)

\* the rows the users table ever holds (id SERIAL: an id is not given twice)
MaxUsers == 2

\* a row of users, by its id: existe is FALSE once the row is deleted
UserRow(a) == [existe |-> TRUE, is_admin |-> a]
NoUser == [existe |-> FALSE, is_admin |-> FALSE]
ExisteUser(us, id) == id \in DOMAIN us /\ us[id].existe
\* SELECT COUNT(*) FROM users WHERE is_admin = TRUE; 0 when the query raises
Admins(us) == {i \in DOMAIN us : us[i].existe /\ us[i].is_admin}
get_admin_count(us, falha) == IF falha THEN 0 ELSE Cardinality(Admins(us))
\* SELECT ... FROM users WHERE id = %s; None when there is no row or the
\* query raises
get_user_by_id(us, user_id, falha) ==
    IF falha \/ ~ExisteUser(us, user_id) THEN NoUser ELSE us[user_id]
\* UPDATE users SET is_admin = %s WHERE id = %s
toggle_user_admin_status(us, user_id, new_status, falha) ==
    IF falha \/ ~ExisteUser(us, user_id) THEN us
    ELSE [us EXCEPT ![user_id].is_admin = new_status]
\* DELETE FROM users WHERE id = %s
delete_user_from_db(us, user_id, falha) ==
    IF falha \/ ~ExisteUser(us, user_id) THEN us
    ELSE [us EXCEPT ![user_id] = NoUser]

\* the routes behind @login_required and @admin_required
RotasQueEscrevem == {"toggle_admin", "delete_user"}
RotasAdmin ==
    RotasQueEscrevem
    \cup {"reset_password", "admin_dashboard", "admin_audit_logs"}
\* if not session.get('is_admin'): redirect
admin_required(sess, by) == sess[by].is_admin

\* the sequence without its i-th element: the request has been answered
Retirar(s, i) ==
    [j \in 1..(Len(s) - 1) |-> IF j < i THEN s[j] ELSE s[j + 1]]

InitAdmin == InitCache /\ NEWS_API_KEY

\* register: the row is an administrator when get_admin_count() == 0
Register ==
    /\ Len(users) < MaxUsers
    /\ \E falha \in BOOLEAN :
        users' = Append(users, UserRow(get_admin_count(users, falha) = 0))
    /\ chamada' = NoCall
    /\ UNCHANGED <<reqs, session, portfolio_cache>>
    /\ UNCHANGED <<now, NEWS_API_KEY, nCalls, nTicks>>
    /\ UNCHANGED replayVars
    /\ UNCHANGED cacheVars
    /\ UNCHANGED logVars

\* login: session['is_admin'] = bool(user['is_admin'])
Login ==
    /\ \E u \in DOMAIN users :
        /\ users[u].existe
        /\ session' = [x \in DOMAIN session \cup {u} |->
                          IF x = u THEN [is_admin |-> users[u].is_admin]
                          ELSE session[x]]
    /\ chamada' = NoCall
    /\ UNCHANGED <<reqs, users, portfolio_cache>>
    /\ UNCHANGED <<now, NEWS_API_KEY, nCalls, nTicks>>
    /\ UNCHANGED replayVars
    /\ UNCHANGED cacheVars
    /\ UNCHANGED logVars

\* logout: session.pop('user_id'), session.pop('is_admin')
Logout ==
    /\ \E u \in DOMAIN session :
        session' = [x \in DOMAIN session \ {u} |-> session[x]]
    /\ chamada' = NoCall
    /\ UNCHANGED <<reqs, users, portfolio_cache>>
    /\ UNCHANGED <<now, NEWS_API_KEY, nCalls, nTicks>>
    /\ UNCHANGED replayVars
    /\ UNCHANGED cacheVars
    /\ UNCHANGED logVars

\* a request of session `by` to an administration route arrives: the two
\* decorators, the test of the own id and get_user_by_id.  chamada.invoked:
\* the body of the route ran
PedirAdmin ==
    /\ Len(reqs) < MaxCalls
    /\ \E by \in DOMAIN session, route \in RotasAdmin,
          user_id \in 1..MaxUsers, falha \in BOOLEAN :
        \E target_user \in {get_user_by_id(users, user_id, falha)} :
            /\ chamada' = Call(route, <<by, user_id>>,
                               admin_required(session, by), None, FALSE,
                               FALSE)
            /\ reqs' =
                 IF /\ admin_required(session, by)
                    /\ route \in RotasQueEscrevem
                    /\ user_id # by
                    /\ target_user.existe
                 THEN Append(reqs,
                             [route |-> route, by |-> by,
                              user_id |-> user_id,
                              target_user |-> target_user,
                              pc |-> IF target_user.is_admin THEN "count"
                                     ELSE "write"])
                 ELSE reqs
    /\ UNCHANGED <<users, session, portfolio_cache>>
    /\ UNCHANGED <<now, NEWS_API_KEY, nCalls, nTicks>>
    /\ UNCHANGED replayVars
    /\ UNCHANGED cacheVars
    /\ UNCHANGED logVars

\* if target_user['is_admin'] and get_admin_count() <= 1: refuse
ContarAdmins ==
    /\ \E i \in DOMAIN reqs, falha \in BOOLEAN :
        /\ reqs[i].pc = "count"
        /\ reqs' = IF get_admin_count(users, falha) <= 1
                   THEN Retirar(reqs, i)
                   ELSE [reqs EXCEPT ![i].pc = "write"]
    /\ chamada' = NoCall
    /\ UNCHANGED <<users, session, portfolio_cache>>
    /\ UNCHANGED <<now, NEWS_API_KEY, nCalls, nTicks>>
    /\ UNCHANGED replayVars
    /\ UNCHANGED cacheVars
    /\ UNCHANGED logVars

\* toggle_user_admin_status(user_id, not target_user['is_admin']), or
\* delete_user_from_db(user_id), and the redirect
EscreverUser ==
    /\ \E i \in DOMAIN reqs, falha \in BOOLEAN :
        /\ reqs[i].pc = "write"
        /\ users' =
             IF reqs[i].route = "toggle_admin"
             THEN toggle_user_admin_status(users, reqs[i].user_id,
                                           ~reqs[i].target_user.is_admin,
                                           falha)
             ELSE delete_user_from_db(users, reqs[i].user_id, falha)
        /\ reqs' = Retirar(reqs, i)
    /\ chamada' = NoCall
    /\ UNCHANGED <<session, portfolio_cache>>
    /\ UNCHANGED <<now, NEWS_API_KEY, nCalls, nTicks>>
    /\ UNCHANGED replayVars
    /\ UNCHANGED cacheVars
    /\ UNCHANGED logVars

NextAdmin ==
    \/ Register
    \/ Login
    \/ Logout
    \/ PedirAdmin
    \/ ContarAdmins
    \/ EscreverUser

SpecAdmin == InitAdmin /\ [][NextAdmin]_vars

\* C29: once an administrator exists (the first row registered is one),
\* whatever toggle_admin and delete_user requests are made and however they
\* interleave, a row with is_admin = TRUE remains in users
C29_RestaUmAdmin == users # <<>> => Admins(users) # {}

\* C30: the body of an administration route runs only for a requester whose
\* row in users has is_admin = TRUE when the request is made
C30_AdminNaTabela ==
    [][(chamada'.op \in RotasAdmin /\ chamada'.invoked)
       => chamada'.key[1] \in Admins(users)]_vars

=============================================================================
